---- MODULE Spec2Model ----
(***************************************************************************)
(* A model of nanodescript: the placement algebra (CellTransformation),    *)
(* the placement resolver and the labeling operations of                   *)
(* NanoscribeGdsHandler, the line parser and the commands of               *)
(* describe_commands, GwlHandler and the assembly of the print job,        *)
(* process_cell and the slicer, the recipe dictionary of DescribeRecipe    *)
(* and utils.find_topcell.                                                 *)
(*                                                                         *)
(* Numbers.  Layout coordinates and magnifications are integers.  A        *)
(* rotation is a whole number of quarter turns (rotation = k stands for    *)
(* k*pi/2 radians), so that the sine and cosine of every angle of the      *)
(* model are the integers -1, 0, 1 and matrix products are exact.          *)
(***************************************************************************)
EXTENDS Integers, Sequences, FiniteSets, TLC

VARIABLES
    \* ---- placement algebra ----
    tA, tB, tC,        \* the operands
    tpc,               \* which operation was applied last
    resL, resR,        \* its results
    chainLen,          \* the number of transforms composed into the chain
    \* ---- NanoscribeGdsHandler: library, matcher, placement resolver ----
    refs,                          \* library: cell -> its references, in order
    matcher,                       \* the cells the matcher's match_cell accepts
    label,                         \* cell -> its is_nanoscribe property: <<>>, <<0>> or <<1>>
    nanoscribe_cells_associations, \* the handler's list of resolved targets
    rpc,                           \* position in find_nanoscribe_instances_and_transformations
    queue_of_cells, queue_of_transformations, nanoscribe_asso,   \* its locals
    calls,                         \* completed calls of it
    hist,                          \* what the last calls saw and gave
    \* ---- describe_commands: the line parser ----
    describe_line, accept_unknown, \* the arguments of parse_describe_line
    ppc,                           \* "args" before the call, "done" after it
    parsed,                        \* what the call gave
    \* ---- describe_commands: a command rendered and parsed again ----
    instance,                      \* the command
    rendered,                      \* str(instance)
    reparsed,                      \* parse_describe_line(rendered, accept_unknown=False)
    cpc,                           \* "made", "rendered", "parsed"
    \* ---- GwlHandler and the assembly of the print job ----
    gwl_commands,                  \* the job document: the list of its commands
    recipe,                        \* describerecipe.recipe, the fields the job reads
    print_origin,                  \* the handler's print_origin, or NoOrigin
    associations,                  \* the resolved targets the job is assembled from
    gop,                           \* the last operation: its name, outcome, document before
    written,                       \* the text of the last write_file
    nops,                          \* operations done
    \* ---- NanoscribeGdsHandler.process_cell and the slicer ----
    describerecipe,                \* the handler's recipe object
    recipes,                       \* the recipes that were sliced, in order
    cells_associations,            \* the resolved targets, as process_cell leaves them
    slicer_runs,                   \* the recipe of each call of generate_gwl_code
    ncalls,                        \* calls of process_cell, update_recipe, process_all_cells
    pall,                          \* process_all_cells, the last call: its position, what it did
    \* ---- DescribeRecipe: the recipe dictionary ----
    drecipe,                       \* self.recipe of the recipe object
    dop,                           \* the last operation on it and its outcome
    \* ---- utils.find_topcell ----
    top_level,                     \* library.top_level(): the names of its cells
    config_topcell,                \* the option topcell of the section gds_handler
    fpc,                           \* "args" before the call, "done" after it
    found,                         \* what the call gave
    \* ---- NanoscribeGdsHandler: the labeling operations ----
    labelings                      \* the calls of them so far: arguments, labels, outcome

tvars == <<tA, tB, tC, tpc, resL, resR, chainLen>>
rvars == <<refs, matcher, label, nanoscribe_cells_associations, rpc,
           queue_of_cells, queue_of_transformations, nanoscribe_asso, calls, hist>>
pvars == <<describe_line, accept_unknown, ppc, parsed>>
cvars == <<instance, rendered, reparsed, cpc>>
gvars == <<gwl_commands, recipe, print_origin, associations, gop, written, nops>>
svars == <<describerecipe, recipes, cells_associations, slicer_runs, ncalls, pall>>
dvars == <<drecipe, dop>>
fvars == <<top_level, config_topcell, fpc, found>>
lvars == <<labelings>>
vars == <<tvars, rvars, pvars, cvars, gvars, svars, dvars, fvars, lvars>>

\* Each specification below runs one component; the variables of the other
\* components rest at these values.
TRest ==
    /\ tA = <<>> /\ tB = <<>> /\ tC = <<>> /\ tpc = "off"
    /\ resL = <<>> /\ resR = <<>> /\ chainLen = 0

RRest ==
    /\ refs = <<>> /\ matcher = {} /\ label = <<>>
    /\ nanoscribe_cells_associations = <<>> /\ rpc = "off"
    /\ queue_of_cells = <<>> /\ queue_of_transformations = <<>>
    /\ nanoscribe_asso = <<>> /\ calls = 0 /\ hist = <<>>

PRest ==
    /\ describe_line = <<>> /\ accept_unknown = FALSE /\ ppc = "off" /\ parsed = <<>>

CRest ==
    /\ instance = <<>> /\ rendered = <<>> /\ reparsed = <<>> /\ cpc = "off"

GRest ==
    /\ gwl_commands = <<>> /\ recipe = <<>> /\ print_origin = <<>> /\ associations = <<>>
    /\ gop = <<>> /\ written = <<>> /\ nops = 0

SRest ==
    /\ describerecipe = <<>> /\ recipes = <<>> /\ cells_associations = <<>>
    /\ slicer_runs = <<>> /\ ncalls = 0 /\ pall = <<>>

DRest == drecipe = <<>> /\ dop = <<>>

FRest == top_level = <<>> /\ config_topcell = <<>> /\ fpc = "off" /\ found = <<>>

LRest == labelings = <<>>

\* The variables of the other components, for each component.
TOthers == <<rvars, pvars, cvars, gvars, svars, dvars, fvars, lvars>>
ROthers == <<tvars, pvars, cvars, gvars, svars, dvars, fvars, lvars>>
POthers == <<tvars, rvars, cvars, gvars, svars, dvars, fvars, lvars>>
COthers == <<tvars, rvars, pvars, gvars, svars, dvars, fvars, lvars>>
GOthers == <<tvars, rvars, pvars, cvars, svars, dvars, fvars, lvars>>
SOthers == <<tvars, rvars, pvars, cvars, gvars, dvars, fvars, lvars>>
DOthers == <<tvars, rvars, pvars, cvars, gvars, svars, fvars, lvars>>
FOthers == <<tvars, rvars, pvars, cvars, gvars, svars, dvars, lvars>>
\* The labeling operations act on the handler: the others of both.
LOthers == <<tvars, pvars, cvars, gvars, svars, dvars, fvars>>

TAlone == RRest /\ PRest /\ CRest /\ GRest /\ SRest /\ DRest /\ FRest /\ LRest
RAlone == TRest /\ PRest /\ CRest /\ GRest /\ SRest /\ DRest /\ FRest /\ LRest
PAlone == TRest /\ RRest /\ CRest /\ GRest /\ SRest /\ DRest /\ FRest /\ LRest
CAlone == TRest /\ RRest /\ PRest /\ GRest /\ SRest /\ DRest /\ FRest /\ LRest
GAlone == TRest /\ RRest /\ PRest /\ CRest /\ SRest /\ DRest /\ FRest /\ LRest
SAlone == TRest /\ RRest /\ PRest /\ CRest /\ GRest /\ DRest /\ FRest /\ LRest
DAlone == TRest /\ RRest /\ PRest /\ CRest /\ GRest /\ SRest /\ FRest /\ LRest
FAlone == TRest /\ RRest /\ PRest /\ CRest /\ GRest /\ SRest /\ DRest /\ LRest

(***************************************************************************)
(* Bounds of the placement algebra                                         *)
(***************************************************************************)
MaxMag == 2         \* magnifications 1..MaxMag
MaxRot == 1         \* rotations 0..MaxRot quarter turns
MaxDepth == 3       \* depth of a composition chain

(***************************************************************************)
(* Linear algebra (numpy's eye, @)                                         *)
(***************************************************************************)
\* A row of n entries (n <= 4), built as a tuple.
Row(F(_), n) ==
    CASE n = 1 -> <<F(1)>>
      [] n = 2 -> <<F(1), F(2)>>
      [] n = 3 -> <<F(1), F(2), F(3)>>
      [] n = 4 -> <<F(1), F(2), F(3), F(4)>>

\* The sum of n terms (n <= 4).
Sum(F(_), n) ==
    CASE n = 1 -> F(1)
      [] n = 2 -> F(1) + F(2)
      [] n = 3 -> F(1) + F(2) + F(3)
      [] n = 4 -> F(1) + F(2) + F(3) + F(4)

Eye(n) == Row(LAMBDA i : Row(LAMBDA j : IF i = j THEN 1 ELSE 0, n), n)

Scale(s, m) == Row(LAMBDA i : Row(LAMBDA j : s * m[i][j], Len(m)), Len(m))

\* a @ b of two matrices, each operand taken as the value it has
MatMul(a, b) ==
    CHOOSE c \in {Row(LAMBDA i : Row(LAMBDA j : Sum(LAMBDA k : x[i][k] * y[k][j], Len(x)),
                                     Len(x)), Len(x)) : x \in {a}, y \in {b}} : TRUE

\* a @ v of a matrix and a vector, each operand taken as the value it has
MatVec(a, v) ==
    CHOOSE c \in {Row(LAMBDA i : Sum(LAMBDA k : x[i][k] * y[k], Len(x)), Len(x)) :
                      x \in {a}, y \in {v}} : TRUE

\* cosine and sine of k quarter turns
CosQ(k) == CASE k % 4 = 0 -> 1 [] k % 4 = 2 -> -1 [] OTHER -> 0
SinQ(k) == CASE k % 4 = 1 -> 1 [] k % 4 = 3 -> -1 [] OTHER -> 0

(***************************************************************************)
(* CellTransformation                                                      *)
(***************************************************************************)
DefaultTransformation ==
    [magnification |-> 1, origin |-> <<0, 0>>, x_reflection |-> FALSE, rotation |-> 0]

CellTransformation(m, o, x, r) ==
    [magnification |-> m, origin |-> o, x_reflection |-> x, rotation |-> r]

\* Rotation.from_rotvec(rotation * [0, 0, 1]).as_matrix()
get_rotation_matrix(self) ==
    << <<CosQ(self.rotation), -SinQ(self.rotation), 0>>,
       <<SinQ(self.rotation),  CosQ(self.rotation), 0>>,
       <<0, 0, 1>> >>

get_magnification_matrix(self) == Scale(self.magnification, Eye(3))

\* xref = eye(3); xref[0, 0] = (-1) ** x_reflection
get_xreflection_matrix(self) ==
    [Eye(3) EXCEPT ![1][1] = IF self.x_reflection THEN -1 ELSE 1]

get_transformation_matrix(self, with_translation) ==
    LET rom == get_rotation_matrix(self)
        scm == get_magnification_matrix(self)
        xrm == get_xreflection_matrix(self)
        tot == MatMul(scm, MatMul(rom, xrm))
        mat == Row(LAMBDA i : Row(LAMBDA j :
                   IF i <= 3 /\ j <= 3 THEN tot[i][j] ELSE Eye(4)[i][j], 4), 4)
    IN  IF with_translation
        THEN [mat EXCEPT ![1][4] = self.origin[1], ![2][4] = self.origin[2]]
        ELSE mat

\* A mutation: the composed origin leaves out self.origin.
compose_transformations_no_self_origin(self, transfo) ==
    LET tmp == <<transfo.origin[1], transfo.origin[2], 0, 0>>
        prod == MatVec(get_transformation_matrix(self, FALSE), tmp)
    IN  CellTransformation(self.magnification * transfo.magnification,
                           <<prod[1], prod[2]>>,
                           self.x_reflection # transfo.x_reflection,
                           self.rotation + transfo.rotation)

\* A mutation: the magnifications are added.
compose_transformations_additive(self, transfo) ==
    LET tmp == <<transfo.origin[1], transfo.origin[2], 0, 0>>
        prod == MatVec(get_transformation_matrix(self, FALSE), tmp)
    IN  CellTransformation(self.magnification + transfo.magnification,
                           <<self.origin[1] + prod[1], self.origin[2] + prod[2]>>,
                           self.x_reflection # transfo.x_reflection,
                           self.rotation + transfo.rotation)

compose_transformations(self, transfo) ==
    LET compound_magnification == self.magnification * transfo.magnification
        compound_rotation == self.rotation + transfo.rotation
        compound_xreflection == (self.x_reflection # transfo.x_reflection)
        tmp == <<transfo.origin[1], transfo.origin[2], 0, 0>>
        prod == MatVec(get_transformation_matrix(self, FALSE), tmp)
        compound_origin == <<self.origin[1] + prod[1], self.origin[2] + prod[2]>>
    IN  CellTransformation(compound_magnification, compound_origin,
                           compound_xreflection, compound_rotation)

\* The place of the point p of a cell placed with the transformation t:
\* the full matrix (translation included) applied to (p, 0, 1).
Place(t, p) ==
    LET q == MatVec(get_transformation_matrix(t, TRUE), <<p[1], p[2], 0, 1>>)
    IN  <<q[1], q[2]>>

(***************************************************************************)
(* The placement algebra as a state machine: the operands are drawn at     *)
(* Init, one operation is applied to them.                                 *)
(***************************************************************************)
\* The origin <<1, 2>> tells apart any two linear parts of the model: it is
\* mapped to a different point by each of them.
Origins == {<<0, 0>>, <<1, 2>>}

Transformations ==
    {CellTransformation(m, o, x, r) :
        m \in 1..MaxMag, o \in Origins, x \in BOOLEAN, r \in 0..MaxRot}

\* The k-th transform of the chain tA, tB, tC, tA, ...
ChainItem(k) == CASE k % 3 = 1 -> tA [] k % 3 = 2 -> tB [] OTHER -> tC

RECURSIVE ChainProduct(_)
ChainProduct(k) == IF k = 0 THEN 1 ELSE ChainItem(k).magnification * ChainProduct(k - 1)

TInit ==
    /\ tA \in Transformations
    /\ tB \in Transformations
    /\ tC \in Transformations
    /\ tpc = "args"
    /\ resL = DefaultTransformation
    /\ resR = DefaultTransformation
    /\ chainLen = 0
    /\ TAlone

\* t3 = t1.compose_transformations(t2)
Compose ==
    /\ tpc = "args"
    /\ tpc' = "composed"
    /\ resL' = compose_transformations(tA, tB)
    /\ UNCHANGED <<tA, tB, tC, resR, chainLen>>
    /\ UNCHANGED TOthers

\* both groupings of three transforms
ComposeThree ==
    /\ tpc = "args"
    /\ tpc' = "grouped"
    /\ resL' = compose_transformations(compose_transformations(tA, tB), tC)
    /\ resR' = compose_transformations(tA, compose_transformations(tB, tC))
    /\ UNCHANGED <<tA, tB, tC, chainLen>>
    /\ UNCHANGED TOthers

\* the default transform on either side
ComposeDefault ==
    /\ tpc = "args"
    /\ tpc' = "default"
    /\ resL' = compose_transformations(DefaultTransformation, tA)
    /\ resR' = compose_transformations(tA, DefaultTransformation)
    /\ UNCHANGED <<tA, tB, tC, chainLen>>
    /\ UNCHANGED TOthers

\* one more transform composed onto the chain, starting from the default
ChainStep ==
    /\ tpc \in {"args", "chain"}
    /\ chainLen < MaxDepth
    /\ tpc' = "chain"
    /\ chainLen' = chainLen + 1
    /\ resL' = compose_transformations(IF tpc = "args" THEN DefaultTransformation ELSE resL,
                                       ChainItem(chainLen + 1))
    /\ UNCHANGED <<tA, tB, tC, resR>>
    /\ UNCHANGED TOthers

TNext == Compose \/ ComposeThree \/ ComposeDefault \/ ChainStep

SpecT == TInit /\ [][TNext]_vars

(***************************************************************************)
(* Claims on the placement algebra                                         *)
(***************************************************************************)

\* C1: placing a point with compose_transformations(A, B) gives the same
\* point as placing it with B and then placing the result with A, and the
\* full matrix of the composition is matrix(A) @ matrix(B).
C1_ComposeIsApplyBThenA ==
    tpc = "composed" =>
        /\ Place(resL, tC.origin) = Place(tA, Place(tB, tC.origin))
        /\ get_transformation_matrix(resL, TRUE) =
               MatMul(get_transformation_matrix(tA, TRUE), get_transformation_matrix(tB, TRUE))

\* C2: compose_transformations is associative in all four components.
C2_ComposeAssociative == tpc = "grouped" => resL = resR

\* C3: the default transform is a two-sided identity of compose_transformations.
C3_DefaultIsIdentity == tpc = "default" => resL = tA /\ resR = tA

C3_Witness ==
    /\ tpc = "default"
    /\ tA.x_reflection /\ tA.rotation = 1 /\ tA.magnification = 2 /\ tA.origin = <<1, 2>>
    /\ resL = tA /\ resR = tA

MaxInstances == 4   \* instances that the references of a library stand for, in all
MaxCalls == 2       \* calls of find_nanoscribe_instances_and_transformations

Cells == <<"top", "cont", "leaf">>
CellSet == {Cells[i] : i \in 1..Len(Cells)}
topcell == "top"

\* The placement of the i-th reference of a cell.
RefTransformation(i) ==
    CellTransformation(IF i % 2 = 0 THEN 2 ELSE 1, <<i, 2 * (i - 1)>>, i % 2 = 0, i % 4)

Reference(c, i, k) ==
    LET t == RefTransformation(i)
    IN  [cell |-> c, magnification |-> t.magnification, origin |-> t.origin,
         x_reflection |-> t.x_reflection, rotation |-> t.rotation, repetition |-> k]

\* The lists of <<cell, repetition>> pairs, of cells of S, that stand for w
\* instances in all.
RECURSIVE PairLists(_, _)
PairLists(S, w) ==
    IF w = 0 THEN {<<>>}
    ELSE UNION {{<<<<c, k>>>> \o l : c \in S, l \in PairLists(S, w - k)} : k \in 1..w}

\* The reference lists of cells of S that stand for w instances in all.
RefLists(S, w) ==
    {[i \in 1..Len(l) |-> Reference(l[i][1], i, l[i][2])] : l \in PairLists(S, w)}

\* The matchers, each given by the cells it accepts.  A matcher that accepts
\* the top cell resolves to the top cell alone, whatever else it accepts.
Matchers == (SUBSET (CellSet \ {topcell})) \cup {{topcell}}

\* The libraries: top places cont and leaf, cont places leaf.
Libraries ==
    UNION {UNION {{[top |-> a, cont |-> b, leaf |-> <<>>] :
                      a \in RefLists({"cont", "leaf"}, n), b \in RefLists({"leaf"}, m)} :
                  m \in 0..(MaxInstances - n)} : n \in 0..MaxInstances}

\* CellTransformation(reference=ref)
TransformationOfReference(ref) ==
    CellTransformation(ref.magnification, ref.origin, ref.x_reflection, ref.rotation)

\* Repetition.get_offsets: the offset of the i-th instance of a row, the
\* first being <<0, 0>>.
RepetitionOffset(i) == <<3 * (i - 1), 0>>

\* Reference.apply_repetition: the instances after the first, each a copy of
\* the reference moved by its offset and without repetition.
NewInstances(ref) ==
    [i \in 1..(ref.repetition - 1) |->
        [ref EXCEPT !.origin = <<ref.origin[1] + RepetitionOffset(i + 1)[1],
                                 ref.origin[2] + RepetitionOffset(i + 1)[2]>>,
                    !.repetition = 1]]

\* A mutation: apply_repetition leaves the reference as it was.
RepetitionAfterApply_kept(ref) == ref

\* Reference.apply_repetition: the reference itself afterwards.
RepetitionAfterApply(ref) == [ref EXCEPT !.repetition = 1]

\* A mutation: the placement of the parent is left out.
ChildTransformation_local(current_transformation, ref) == TransformationOfReference(ref)

\* current_transformation.compose_transformations(CellTransformation(reference=ref))
ChildTransformation(current_transformation, ref) ==
    compose_transformations(current_transformation, TransformationOfReference(ref))

RECURSIVE Flatten(_)
Flatten(ss) == IF ss = <<>> THEN <<>> ELSE Head(ss) \o Flatten(Tail(ss))

\* matcher.match_cell(cell)
match_cell(cell) == cell \in matcher

\* cell.get_property(is_nanoscribe) of a cell on which it was never set
NoProperty == <<>>

\* The property that cell.set_property(is_nanoscribe, isnanoscribe) leaves
\* and get_property gives back: the list of the one value, 1 or 0.
PropertyOf(isnanoscribe) == IF isnanoscribe THEN <<1>> ELSE <<0>>

\* current_prop is not None and current_prop[0]
IsNanoscribe(current_prop) == current_prop # NoProperty /\ current_prop[1] = 1

\* find_nanoscribe_cells: the labels it sets
find_nanoscribe_cells == [c \in CellSet |-> PropertyOf(match_cell(c))]

(***************************************************************************)
(* find_nanoscribe_instances_and_transformations, one action per step:     *)
(* the entry (labeling pre-pass, queues), each turn of the loop, the exit. *)
(***************************************************************************)
RInit ==
    /\ refs \in Libraries
    /\ matcher \in Matchers
    /\ label = [c \in CellSet |-> NoProperty]
    /\ nanoscribe_cells_associations = <<>>
    /\ rpc = "idle"
    /\ queue_of_cells = <<>>
    /\ queue_of_transformations = <<>>
    /\ nanoscribe_asso = <<>>
    /\ calls = 0
    /\ hist = [refs0 |-> refs, call |-> <<>>, prev |-> <<>>]
    /\ RAlone

\* set_matcher
SetMatcher ==
    /\ rpc = "idle"
    /\ \E m \in Matchers : matcher' = m
    /\ matcher' # matcher
    /\ UNCHANGED <<refs, label, nanoscribe_cells_associations, rpc, queue_of_cells,
                   queue_of_transformations, nanoscribe_asso, calls, hist>>
    /\ UNCHANGED ROthers

\* A mutation: the traversal begins without the labeling pre-pass.
FindBegin_unlabeled ==
    /\ rpc = "idle"
    /\ calls < MaxCalls
    /\ label' = label
    /\ queue_of_cells' = <<topcell>>
    /\ queue_of_transformations' = <<DefaultTransformation>>
    /\ nanoscribe_asso' = <<>>
    /\ rpc' = "loop"
    /\ hist' = [hist EXCEPT !.prev = hist.call,
                            !.call = [refs |-> refs, matcher |-> matcher,
                                      associations |-> nanoscribe_cells_associations,
                                      outcome |-> "running", refsAfter |-> refs,
                                      result |-> <<>>]]
    /\ UNCHANGED <<refs, matcher, nanoscribe_cells_associations, calls>>
    /\ UNCHANGED ROthers

\* the entry: the labeling pre-pass and the two queues
FindBegin ==
    /\ rpc = "idle"
    /\ calls < MaxCalls
    /\ label' = find_nanoscribe_cells
    /\ queue_of_cells' = <<topcell>>
    /\ queue_of_transformations' = <<DefaultTransformation>>
    /\ nanoscribe_asso' = <<>>
    /\ rpc' = "loop"
    /\ hist' = [hist EXCEPT !.prev = hist.call,
                            !.call = [refs |-> refs, matcher |-> matcher,
                                      associations |-> nanoscribe_cells_associations,
                                      outcome |-> "running", refsAfter |-> refs,
                                      result |-> <<>>]]
    /\ UNCHANGED <<refs, matcher, nanoscribe_cells_associations, calls>>
    /\ UNCHANGED ROthers

\* A mutation: the children of a dequeued nanoscribe cell are enqueued as
\* those of any other cell.
LoopTarget_descends ==
    /\ rpc = "loop" /\ queue_of_cells # <<>>
    /\ IsNanoscribe(label[Head(queue_of_cells)])
    /\ nanoscribe_asso' = Append(nanoscribe_asso,
           [cell |-> Head(queue_of_cells), transformation |-> Head(queue_of_transformations)])
    /\ LET children == refs[Head(queue_of_cells)]
       IN  /\ queue_of_cells' =
                  Tail(queue_of_cells) \o [i \in 1..Len(children) |-> children[i].cell]
           /\ queue_of_transformations' =
                  Tail(queue_of_transformations) \o
                  [i \in 1..Len(children) |->
                      ChildTransformation(Head(queue_of_transformations), children[i])]
    /\ UNCHANGED <<refs, matcher, label, nanoscribe_cells_associations, rpc, calls, hist>>
    /\ UNCHANGED ROthers

\* a dequeued nanoscribe cell
LoopTarget ==
    /\ rpc = "loop" /\ queue_of_cells # <<>>
    /\ IsNanoscribe(label[Head(queue_of_cells)])
    /\ nanoscribe_asso' = Append(nanoscribe_asso,
           [cell |-> Head(queue_of_cells), transformation |-> Head(queue_of_transformations)])
    /\ queue_of_cells' = Tail(queue_of_cells)
    /\ queue_of_transformations' = Tail(queue_of_transformations)
    /\ UNCHANGED <<refs, matcher, label, nanoscribe_cells_associations, rpc, calls, hist>>
    /\ UNCHANGED ROthers

\* A mutation: the placements of the children are enqueued last first.
LoopChildren_reversed ==
    /\ rpc = "loop" /\ queue_of_cells # <<>>
    /\ ~IsNanoscribe(label[Head(queue_of_cells)])
    /\ LET current_cell == Head(queue_of_cells)
           current_transformation == Head(queue_of_transformations)
           references == refs[current_cell]
           repetitions == Flatten([i \in 1..Len(references) |-> NewInstances(references[i])])
           after == [i \in 1..Len(references) |-> RepetitionAfterApply(references[i])]
       IN  \E children \in {after \o repetitions} :
           /\ refs' = [refs EXCEPT ![current_cell] = after]
           /\ queue_of_cells' =
                  Tail(queue_of_cells) \o [i \in 1..Len(children) |-> children[i].cell]
           /\ queue_of_transformations' =
                  Tail(queue_of_transformations) \o
                  [i \in 1..Len(children) |->
                      ChildTransformation(current_transformation,
                                          children[Len(children) + 1 - i])]
    /\ UNCHANGED <<matcher, label, nanoscribe_cells_associations, rpc, nanoscribe_asso,
                   calls, hist>>
    /\ UNCHANGED ROthers

\* a dequeued cell that is none: its children are enqueued
LoopChildren ==
    /\ rpc = "loop" /\ queue_of_cells # <<>>
    /\ ~IsNanoscribe(label[Head(queue_of_cells)])
    /\ LET current_cell == Head(queue_of_cells)
           current_transformation == Head(queue_of_transformations)
           references == refs[current_cell]
           repetitions == Flatten([i \in 1..Len(references) |-> NewInstances(references[i])])
           after == [i \in 1..Len(references) |-> RepetitionAfterApply(references[i])]
       IN  \E children \in {after \o repetitions} :
           /\ refs' = [refs EXCEPT ![current_cell] = after]
           /\ queue_of_cells' =
                  Tail(queue_of_cells) \o [i \in 1..Len(children) |-> children[i].cell]
           /\ queue_of_transformations' =
                  Tail(queue_of_transformations) \o
                  [i \in 1..Len(children) |->
                      ChildTransformation(current_transformation, children[i])]
    /\ UNCHANGED <<matcher, label, nanoscribe_cells_associations, rpc, nanoscribe_asso,
                   calls, hist>>
    /\ UNCHANGED ROthers

FindStore ==
    /\ rpc = "loop" /\ queue_of_cells = <<>>
    /\ nanoscribe_asso # <<>>
    /\ nanoscribe_cells_associations' = nanoscribe_asso
    /\ rpc' = "idle"
    /\ calls' = calls + 1
    /\ hist' = [hist EXCEPT !.call = [hist.call EXCEPT !.outcome = "returned",
                                                       !.refsAfter = refs,
                                                       !.result = nanoscribe_asso]]
    /\ UNCHANGED <<refs, matcher, label, queue_of_cells, queue_of_transformations,
                   nanoscribe_asso>>
    /\ UNCHANGED ROthers

\* A mutation: the result is stored before it is found empty.
FindRaise_stored ==
    /\ rpc = "loop" /\ queue_of_cells = <<>>
    /\ nanoscribe_asso = <<>>
    /\ nanoscribe_cells_associations' = nanoscribe_asso
    /\ rpc' = "idle"
    /\ calls' = calls + 1
    /\ hist' = [hist EXCEPT !.call = [hist.call EXCEPT !.outcome = "raised",
                                                       !.refsAfter = refs]]
    /\ UNCHANGED <<refs, matcher, label, queue_of_cells,
                   queue_of_transformations, nanoscribe_asso>>
    /\ UNCHANGED ROthers

\* raise ValueError("No nanoscribe print areas found ...")
FindRaise ==
    /\ rpc = "loop" /\ queue_of_cells = <<>>
    /\ nanoscribe_asso = <<>>
    /\ rpc' = "idle"
    /\ calls' = calls + 1
    /\ hist' = [hist EXCEPT !.call = [hist.call EXCEPT !.outcome = "raised",
                                                       !.refsAfter = refs]]
    /\ UNCHANGED <<refs, matcher, label, nanoscribe_cells_associations, queue_of_cells,
                   queue_of_transformations, nanoscribe_asso>>
    /\ UNCHANGED ROthers

RNext == SetMatcher \/ FindBegin \/ LoopTarget \/ LoopChildren \/ FindStore \/ FindRaise

SpecR == RInit /\ [][RNext]_vars

\* The loop of the traversal goes on while its queue holds a cell, and the
\* call ends when it holds none.
SpecRFair ==
    /\ RInit /\ [][RNext]_vars
    /\ WF_vars(LoopTarget) /\ WF_vars(LoopChildren)
    /\ WF_vars(FindStore) /\ WF_vars(FindRaise)

(***************************************************************************)
(* Claims on the placement resolver                                        *)
(***************************************************************************)
Count(x, seq) == Cardinality({i \in 1..Len(seq) : seq[i] = x})

\* the same elements, each as many times
SameBag(s, t) ==
    /\ Len(s) = Len(t)
    /\ \A i \in 1..Len(s) : Count(s[i], s) = Count(s[i], t)

NoRepetition(lib) == \A c \in CellSet : \A i \in 1..Len(lib[c]) : lib[c][i].repetition = 1

\* The instances a reference stands for: itself at its origin, then one per
\* further offset of its repetition.
Instances(ref) == <<[ref EXCEPT !.repetition = 1]>> \o NewInstances(ref)

\* One target for every path of reference instances of the library lib from
\* the cell c, placed at acc, to a cell that the matcher m accepts, through no
\* other such cell.  Each target carries the composition of the placements
\* along its path, from the root down.
RECURSIVE PathTargets(_, _, _, _)
PathTargets(lib, m, c, acc) ==
    IF c \in m THEN <<[cell |-> c, transformation |-> acc]>>
    ELSE LET inst == Flatten([i \in 1..Len(lib[c]) |-> Instances(lib[c][i])])
         IN  Flatten([i \in 1..Len(inst) |->
                        PathTargets(lib, m, inst[i].cell,
                            compose_transformations(acc, TransformationOfReference(inst[i])))])

\* The cells reachable from c.
RECURSIVE Reachable(_, _)
Reachable(lib, c) ==
    {c} \cup UNION {Reachable(lib, lib[c][i].cell) : i \in 1..Len(lib[c])}

Returned == rpc = "idle" /\ calls > 0 /\ hist.call.outcome = "returned"
Raised == rpc = "idle" /\ calls > 0 /\ hist.call.outcome = "raised"

\* C5: on a hierarchy without repetition the resolver returns exactly one
\* target for every path of references from the top cell to a target cell
\* that passes through no other target cell, with the composition of the
\* reference placements along the path, from the identity, root to leaf.
C5_OneTargetPerPath ==
    (Returned /\ NoRepetition(hist.call.refs)) =>
        SameBag(nanoscribe_cells_associations,
                PathTargets(hist.call.refs, hist.call.matcher, topcell, DefaultTransformation))

\* root -> container -> two children, each a target
C5_Witness ==
    /\ Returned /\ NoRepetition(hist.refs0) /\ calls = 1
    /\ Len(hist.refs0["top"]) = 1 /\ hist.refs0["top"][1].cell = "cont"
    /\ Len(hist.refs0["cont"]) = 2
    /\ hist.call.matcher = {"leaf"}
    /\ Len(nanoscribe_cells_associations) = 2
    /\ nanoscribe_cells_associations[1].transformation.origin = <<1, 1>>
    /\ nanoscribe_cells_associations[2].transformation.origin = <<-1, 2>>

\* C6: one target per instance of a repeated reference, for every placement
\* of the cell that holds the reference (m placements of an array of k give
\* m * k targets).
C6_OneTargetPerInstance ==
    (Returned /\ calls = 1) =>
        SameBag(nanoscribe_cells_associations,
                PathTargets(hist.refs0, hist.call.matcher, topcell, DefaultTransformation))

\* C7: with no target cell reachable from the top cell the call raises, and
\* the handler's associations are what they were before the call.
C7_NoTargetsRaises ==
    /\ (rpc = "idle" /\ calls > 0 /\
        Reachable(hist.call.refs, topcell) \cap hist.call.matcher = {}) => Raised
    /\ Raised => nanoscribe_cells_associations = hist.call.associations

C7_Witness ==
    /\ Raised
    /\ Reachable(hist.call.refs, topcell) \cap hist.call.matcher = {}
    /\ hist.call.associations # <<>>
    /\ nanoscribe_cells_associations = hist.call.associations

\* C8: a traversal changes no reference and no repetition of the library, and
\* two calls in a row with the same matcher give the same list in the same
\* order.
C8_ReproducibleReadOnly ==
    (rpc = "idle" /\ calls > 0) =>
        /\ hist.call.refsAfter = hist.call.refs
        /\ (calls > 1 /\ hist.prev.matcher = hist.call.matcher) =>
               /\ hist.prev.outcome = hist.call.outcome
               /\ hist.prev.result = hist.call.result

Range(seq) == {seq[i] : i \in 1..Len(seq)}

\* C25: a dequeued cell that is labeled as target gives one target, with the
\* placement it was dequeued with, and none of its references is enqueued;
\* so every target of the result ends a path of references from the top
\* cell through cells that are no targets.
C25_NoDescentBelowTarget ==
    /\ [](rpc = "loop" =>
            \A i \in 1..Len(nanoscribe_asso) :
                nanoscribe_asso[i] \in
                    Range(PathTargets(hist.call.refs, hist.call.matcher, topcell,
                                      DefaultTransformation)))
    /\ [][(rpc = "loop" /\ queue_of_cells # <<>> /\ IsNanoscribe(label[Head(queue_of_cells)])) =>
             /\ nanoscribe_asso' =
                    Append(nanoscribe_asso,
                           [cell |-> Head(queue_of_cells),
                            transformation |-> Head(queue_of_transformations)])
             /\ queue_of_cells' = Tail(queue_of_cells)
             /\ queue_of_transformations' = Tail(queue_of_transformations)]_vars

\* The container is a target and holds the leaf, a target too: the result
\* is the container alone.
C25_Witness ==
    /\ Returned /\ calls = 1
    /\ hist.call.matcher = {"cont", "leaf"}
    /\ Len(hist.refs0["top"]) = 1 /\ hist.refs0["top"][1].cell = "cont"
    /\ Len(hist.refs0["cont"]) = 2
    /\ Len(nanoscribe_cells_associations) = 1
    /\ nanoscribe_cells_associations[1].cell = "cont"

\* The targets in breadth-first order, first in first out, over the
\* references in insertion order, each reference standing at its own place
\* for all its instances: queue holds the placements still to visit.
RECURSIVE BreadthFirstTargets(_, _, _)
BreadthFirstTargets(lib, m, queue) ==
    IF queue = <<>> THEN <<>>
    ELSE IF Head(queue).cell \in m
    THEN <<Head(queue)>> \o BreadthFirstTargets(lib, m, Tail(queue))
    ELSE LET inst == Flatten([i \in 1..Len(lib[Head(queue).cell]) |->
                                 Instances(lib[Head(queue).cell][i])])
         IN  BreadthFirstTargets(lib, m,
                 Tail(queue) \o
                 [i \in 1..Len(inst) |->
                     [cell |-> inst[i].cell,
                      transformation |->
                          compose_transformations(Head(queue).transformation,
                                                  TransformationOfReference(inst[i]))]])

\* C26: the result is in breadth-first order over the references in
\* insertion order, every instance of a reference before any instance of
\* the next reference of the same cell (so a target at a smaller depth comes
\* before any target at a larger depth).  Stated where the result holds the
\* targets it should, each as many times.
C26_BreadthFirstInsertionOrder ==
    LET expected == BreadthFirstTargets(hist.refs0, hist.call.matcher,
                        <<[cell |-> topcell, transformation |-> DefaultTransformation]>>)
    IN  (Returned /\ calls = 1 /\ SameBag(nanoscribe_cells_associations, expected)) =>
            nanoscribe_cells_associations = expected

\* The placements of the traversal: the cell c placed at acc, and the
\* placements of the instances of its references if it is no target.
RECURSIVE Placements(_, _, _, _)
Placements(lib, m, c, acc) ==
    {<<c, acc>>} \cup
    (IF c \in m THEN {}
     ELSE LET inst == Flatten([i \in 1..Len(lib[c]) |-> Instances(lib[c][i])])
          IN  UNION {Placements(lib, m, inst[i].cell,
                         compose_transformations(acc, TransformationOfReference(inst[i]))) :
                     i \in 1..Len(inst)})

\* C28: at every turn of the loop the two queues have the same length and
\* each cell of the queue is at the place of its own placement; and the
\* loop comes to an empty queue.
C28_LoopTerminatesQueuesPaired ==
    /\ [](rpc = "loop" =>
            /\ Len(queue_of_cells) = Len(queue_of_transformations)
            /\ \A i \in 1..Len(queue_of_cells) :
                   <<queue_of_cells[i], queue_of_transformations[i]>> \in
                       Placements(hist.call.refs, hist.call.matcher, topcell,
                                  DefaultTransformation))
    /\ (rpc = "loop") ~> (rpc = "loop" /\ queue_of_cells = <<>>)

\* Two cells wait in the queue, the container and the leaf, with different
\* placements.
C28_Witness ==
    /\ rpc = "loop" /\ Len(queue_of_cells) = 2
    /\ queue_of_cells[1] # queue_of_cells[2]
    /\ queue_of_transformations[1] # queue_of_transformations[2]
    /\ Len(refs["cont"]) > 0

(***************************************************************************)
(* describe_commands: text                                                 *)
(*                                                                         *)
(* A text is the sequence of its characters.                               *)
(***************************************************************************)
StartsWith(s, prefix) ==
    Len(prefix) <= Len(s) /\ SubSeq(s, 1, Len(prefix)) = prefix

EndsWith(s, suffix) ==
    Len(suffix) <= Len(s) /\ SubSeq(s, Len(s) - Len(suffix) + 1, Len(s)) = suffix

\* s occurs in t
Contains(t, s) == \E i \in 0..(Len(t) - Len(s)) : SubSeq(t, i + 1, i + Len(s)) = s

Whitespace == {" ", "\t", "\n"}

RECURSIVE LStrip(_, _)
LStrip(s, chars) == IF s # <<>> /\ Head(s) \in chars THEN LStrip(Tail(s), chars) ELSE s

RECURSIVE RStrip(_, _)
RStrip(s, chars) ==
    IF s # <<>> /\ s[Len(s)] \in chars THEN RStrip(SubSeq(s, 1, Len(s) - 1), chars) ELSE s

\* str.strip(chars)
Strip(s, chars) == RStrip(LStrip(s, chars), chars)

DigitChars == <<"0", "1", "2", "3", "4", "5", "6", "7", "8", "9">>
IsDigit(c) == \E i \in 1..10 : DigitChars[i] = c
DigitValue(c) == (CHOOSE i \in 1..10 : DigitChars[i] = c) - 1
AllDigits(s) == \A i \in 1..Len(s) : IsDigit(s[i])

RECURSIVE Number(_)
Number(ds) ==
    IF ds = <<>> THEN 0 ELSE 10 * Number(SubSeq(ds, 1, Len(ds) - 1)) + DigitValue(ds[Len(ds)])

Unsigned(s) == IF s # <<>> /\ Head(s) \in {"-", "+"} THEN Tail(s) ELSE s
SignOf(s) == IF s # <<>> /\ Head(s) = "-" THEN -1 ELSE 1

\* int(valstr): blanks around, a sign, decimal digits
int(valstr) ==
    LET s == Strip(valstr, Whitespace)
        body == Unsigned(s)
    IN  IF body # <<>> /\ AllDigits(body)
        THEN [ok |-> TRUE, value |-> SignOf(s) * Number(body)]
        ELSE [ok |-> FALSE, value |-> 0]

\* The place of the first "." of s, or 0.
PointAt(s) == IF \E i \in 1..Len(s) : s[i] = "."
              THEN CHOOSE i \in 1..Len(s) : s[i] = "." /\ \A j \in 1..(i - 1) : s[j] # "."
              ELSE 0

\* float(valstr): blanks around, a sign, decimal digits with at most one
\* point.  A decimal number is kept as mant / 10^exp without final zeros.
\* (Exponents, inf and nan are in no line of the model.)
float(valstr) ==
    LET s == Strip(valstr, Whitespace)
        body == Unsigned(s)
        pt == PointAt(body)
        whole == IF pt = 0 THEN body ELSE SubSeq(body, 1, pt - 1)
        frac == IF pt = 0 THEN <<>> ELSE RStrip(SubSeq(body, pt + 1, Len(body)), {"0"})
        fracAll == IF pt = 0 THEN <<>> ELSE SubSeq(body, pt + 1, Len(body))
    IN  IF AllDigits(whole) /\ AllDigits(fracAll) /\ Len(whole) + Len(fracAll) > 0
        THEN [ok |-> TRUE,
              value |-> [mant |-> SignOf(s) * Number(whole \o frac), exp |-> Len(frac)]]
        ELSE [ok |-> FALSE, value |-> [mant |-> 0, exp |-> 0]]

(***************************************************************************)
(* describe_commands: the catalogue                                        *)
(*                                                                         *)
(* available_describe_commands, in the order of the class definitions: the *)
(* key (the class name, without a leading "Describe"), the class, and the  *)
(* parser of the class: the cast of DescribeCommand.parse for a class with *)
(* one field ("float", "int", "str"), nothing for a class without fields   *)
(* ("none"), or its own parse ("include", "var").                          *)
(* This is a part of the catalogue.  The key of no class left out is the   *)
(* beginning of a line of the model.                                       *)
(***************************************************************************)
\* constants.COMMENT_CHAR, the single designated comment character.
COMMENT_CHAR == "%"

available_describe_commands == <<
    [cls |-> "UnknownDescribeCommand", parser |-> "str",
     key |-> <<"U", "n", "k", "n", "o", "w", "n", "D", "e", "s", "c", "r", "i", "b", "e", "C", "o", "m", "m", "a", "n", "d">>],
    [cls |-> "PiezoScanMode", parser |-> "none",
     key |-> <<"P", "i", "e", "z", "o", "S", "c", "a", "n", "M", "o", "d", "e">>],
    [cls |-> "GalvoScanMode", parser |-> "none",
     key |-> <<"G", "a", "l", "v", "o", "S", "c", "a", "n", "M", "o", "d", "e">>],
    [cls |-> "ContinuousMode", parser |-> "none",
     key |-> <<"C", "o", "n", "t", "i", "n", "u", "o", "u", "s", "M", "o", "d", "e">>],
    [cls |-> "PowerScaling", parser |-> "float",
     key |-> <<"P", "o", "w", "e", "r", "S", "c", "a", "l", "i", "n", "g">>],
    [cls |-> "PiezoSettlingTime", parser |-> "float",
     key |-> <<"P", "i", "e", "z", "o", "S", "e", "t", "t", "l", "i", "n", "g", "T", "i", "m", "e">>],
    [cls |-> "PowerValues", parser |-> "none",
     key |-> <<"P", "o", "w", "e", "r", "V", "a", "l", "u", "e", "s">>],
    [cls |-> "PowerValuesOn", parser |-> "none",
     key |-> <<"P", "o", "w", "e", "r", "V", "a", "l", "u", "e", "s", "O", "n">>],
    [cls |-> "PowerValuesOff", parser |-> "none",
     key |-> <<"P", "o", "w", "e", "r", "V", "a", "l", "u", "e", "s", "O", "f", "f">>],
    [cls |-> "Wait", parser |-> "int",
     key |-> <<"W", "a", "i", "t">>],
    [cls |-> "Write", parser |-> "none",
     key |-> <<"W", "r", "i", "t", "e">>],
    [cls |-> "GalvoAcceleration", parser |-> "float",
     key |-> <<"G", "a", "l", "v", "o", "A", "c", "c", "e", "l", "e", "r", "a", "t", "i", "o", "n">>],
    [cls |-> "XOffset", parser |-> "float",
     key |-> <<"X", "O", "f", "f", "s", "e", "t">>],
    [cls |-> "YOffset", parser |-> "float",
     key |-> <<"Y", "O", "f", "f", "s", "e", "t">>],
    [cls |-> "ZOffset", parser |-> "float",
     key |-> <<"Z", "O", "f", "f", "s", "e", "t">>],
    [cls |-> "MoveStageX", parser |-> "float",
     key |-> <<"M", "o", "v", "e", "S", "t", "a", "g", "e", "X">>],
    [cls |-> "MoveStageY", parser |-> "float",
     key |-> <<"M", "o", "v", "e", "S", "t", "a", "g", "e", "Y">>],
    [cls |-> "PerfectShape", parser |-> "int",
     key |-> <<"P", "e", "r", "f", "e", "c", "t", "S", "h", "a", "p", "e">>],
    [cls |-> "PerfectShapeOff", parser |-> "none",
     key |-> <<"P", "e", "r", "f", "e", "c", "t", "S", "h", "a", "p", "e", "O", "f", "f">>],
    [cls |-> "PsLoadPowerProfiles", parser |-> "str",
     key |-> <<"P", "s", "L", "o", "a", "d", "P", "o", "w", "e", "r", "P", "r", "o", "f", "i", "l", "e", "s">>],
    [cls |-> "StageVelocity", parser |-> "int",
     key |-> <<"S", "t", "a", "g", "e", "V", "e", "l", "o", "c", "i", "t", "y">>],
    [cls |-> "Describe_include", parser |-> "include",
     key |-> <<"_", "i", "n", "c", "l", "u", "d", "e">>],
    [cls |-> "Describe_repeat", parser |-> "int",
     key |-> <<"_", "r", "e", "p", "e", "a", "t">>],
    [cls |-> "Describe_var", parser |-> "var",
     key |-> <<"_", "v", "a", "r">>],
    [cls |-> "Describe_local", parser |-> "var",
     key |-> <<"_", "l", "o", "c", "a", "l">>],
    [cls |-> "Describe_set", parser |-> "var",
     key |-> <<"_", "s", "e", "t">>],
    [cls |-> "Describe_empty", parser |-> "none",
     key |-> <<"_", "e", "m", "p", "t", "y">>],
    [cls |-> "Describe_if", parser |-> "str",
     key |-> <<"_", "i", "f">>],
    [cls |-> "WriteText", parser |-> "str",
     key |-> <<"W", "r", "i", "t", "e", "T", "e", "x", "t">>],
    [cls |-> "AccelerationTime", parser |-> "float",
     key |-> <<"A", "c", "c", "e", "l", "e", "r", "a", "t", "i", "o", "n", "T", "i", "m", "e">>],
    [cls |-> "Acceleration", parser |-> "float",
     key |-> <<"A", "c", "c", "e", "l", "e", "r", "a", "t", "i", "o", "n">>],
    [cls |-> "InvertZAxis", parser |-> "int",
     key |-> <<"I", "n", "v", "e", "r", "t", "Z", "A", "x", "i", "s">>],
    [cls |-> "MessageOut", parser |-> "str",
     key |-> <<"M", "e", "s", "s", "a", "g", "e", "O", "u", "t">>],
    [cls |-> "ShowVar", parser |-> "str",
     key |-> <<"S", "h", "o", "w", "V", "a", "r">>],
    [cls |-> "Comment", parser |-> "str",
     key |-> <<COMMENT_CHAR>>]
>>

\* A command: its class and the values of its fields (__dict__.values()).
Command(cls, args) == [cls |-> cls, args |-> args]
NoCommand == Command("None", <<>>)

ReturnOf(command) == [outcome |-> "returned", command |-> command, message |-> <<>>]
RaiseOf(message) == [outcome |-> "raised", command |-> NoCommand, message |-> message]

\* A mutation: the command is made without the line.
UnknownDescribeCommand_default(strcmd) == Command("UnknownDescribeCommand", <<<<"\n">>>>)

UnknownDescribeCommand(strcmd) == Command("UnknownDescribeCommand", <<strcmd>>)

\* UnknownDescribeCommand.__str__
UnknownDescribeCommand_str(command) == command.args[1]

\* Describe_include.parse
Describe_include_parse(valstr) ==
    LET gwl_path == Strip(valstr, {" ", "'", "\"", "\t", "\n"})
        gwl == <<".", "g", "w", "l">>
    IN  IF ~EndsWith(gwl_path, gwl) \/ EndsWith(gwl_path, gwl)
        THEN RaiseOf(gwl_path \o <<" is does not direct to a '.gwl' or '.gwlb' file">>)
        ELSE ReturnOf(Command("Describe_include", <<<<"n", "o", "n", "e">>>>))

\* The place of the first c in s, or 0.
IndexOf(s, c) == IF \E i \in 1..Len(s) : s[i] = c
                 THEN CHOOSE i \in 1..Len(s) : s[i] = c /\ \A j \in 1..(i - 1) : s[j] # c
                 ELSE 0

Letters ==
    {"a", "b", "c", "d", "e", "f", "g", "h", "i", "j", "k", "l", "m", "n", "o", "p", "q",
     "r", "s", "t", "u", "v", "w", "x", "y", "z", "A", "B", "C", "D", "E", "F", "G", "H",
     "I", "J", "K", "L", "M", "N", "O", "P", "Q", "R", "S", "T", "U", "V", "W", "X", "Y",
     "Z"}

\* \w
IsWordChar(c) == c \in Letters \/ IsDigit(c) \/ c = "_"

\* _check_var_name: TRUE when it raises nothing
_check_var_name(varstring) ==
    /\ StartsWith(varstring, <<"$">>)
    /\ Len(varstring) > 1
    /\ \A i \in 2..Len(varstring) : IsWordChar(varstring[i])

\* The value of a variable: an int, a float or a string.  The three are
\* kept in one shape: num is the number (exp = 0 for an int), chars the string.
IntValue(n) == [kind |-> "int", num |-> [mant |-> n, exp |-> 0], chars |-> <<>>]
FloatValue(x) == [kind |-> "float", num |-> x, chars |-> <<>>]
StrValue(chars) == [kind |-> "str", num |-> [mant |-> 0, exp |-> 0], chars |-> chars]

\* _parse_var_value
_parse_var_value(valstr) ==
    IF int(valstr).ok THEN IntValue(int(valstr).value)
    ELSE IF float(valstr).ok THEN FloatValue(float(valstr).value)
    ELSE StrValue(<<"'">> \o valstr \o <<"'">>)

\* _parse_var_str, and the parse of Describe_var, Describe_local, Describe_set
_parse_var_str(cls, varstr0) ==
    LET varstr == Strip(varstr0, Whitespace)
        p == IndexOf(varstr, "=")
        spl0 == SubSeq(varstr, 1, p - 1)
        rest == SubSeq(varstr, p + 1, Len(varstr))
        q == IndexOf(rest, "=")
        spl1 == IF q = 0 THEN rest ELSE SubSeq(rest, 1, q - 1)
        name == Strip(spl0, Whitespace)
        value == Strip(spl1, Whitespace)
    IN  IF p = 0 THEN RaiseOf(<<"list index out of range">>)
        ELSE IF ~_check_var_name(name)
        THEN RaiseOf(name \o <<" does not comply with describe name rules">>)
        ELSE IF value = <<>> THEN RaiseOf(<<"No value found">>)
        ELSE ReturnOf(Command(cls, <<StrValue(name), _parse_var_value(value)>>))

\* command = available_describe_commands[name](); command.parse(valstr)
ParseWith(entry, valstr) ==
    CASE entry.parser = "none" -> ReturnOf(Command(entry.cls, <<>>))
      [] entry.parser = "str" -> ReturnOf(Command(entry.cls, <<valstr>>))
      [] entry.parser = "int" ->
            IF int(valstr).ok THEN ReturnOf(Command(entry.cls, <<int(valstr).value>>))
            ELSE RaiseOf(<<"invalid literal for int() with base 10: ">> \o valstr)
      [] entry.parser = "float" ->
            IF float(valstr).ok THEN ReturnOf(Command(entry.cls, <<float(valstr).value>>))
            ELSE RaiseOf(<<"could not convert string to float: ">> \o valstr)
      [] entry.parser = "include" -> Describe_include_parse(valstr)
      [] entry.parser = "var" -> _parse_var_str(entry.cls, valstr)

\* The loop of parse_describe_line from the i-th key on.
RECURSIVE ParseFrom(_, _, _)
ParseFrom(line, accept, i) ==
    IF i > Len(available_describe_commands)
    THEN RaiseOf(<<"unable to parse ">> \o line \o <<" into DescribeCommand">>)
    ELSE LET entry == available_describe_commands[i]
         IN  IF StartsWith(line, entry.key)
             THEN ParseWith(entry, SubSeq(line, Len(entry.key) + 1, Len(line)))
             ELSE IF accept
                  THEN ReturnOf(UnknownDescribeCommand(line))
                  ELSE ParseFrom(line, accept, i + 1)

parse_describe_line(line, accept) == ParseFrom(line, accept, 1)

(***************************************************************************)
(* The line parser as a state machine: a line and accept_unknown are drawn *)
(* at Init, parse_describe_line is applied to them.                        *)
(***************************************************************************)
\* What follows the beginning of a line.
Suffixes ==
    { <<>>, <<" ", "1">>, <<" ", "-", "2", ".", "5", "0">>, <<" ", "0">>,
      <<" ", "a", ".", "g", "w", "l">>, <<" ", "x">>, <<"X", " ", "7">>,
      <<" ", "$", "a", " ", "=", " ", "-", "3">>, <<" ", "$", "a", "=", "b", "=", "c">>,
      <<" ", "a", " ", "=", " ", "1", ".", "5">>, <<" ", "$", "a", "_", "1", " ", "=">> }

\* Beginnings of lines that are no key.
OtherWords ==
    { <<>>, <<"i", "n", "c", "l", "u", "d", "e">>, <<"v", "a", "r">>, <<"G", "0", "1">>,
      <<"g", "a", "l", "v", "o", "S", "c", "a", "n", "M", "o", "d", "e">>,
      <<" ", "W", "r", "i", "t", "e">> }

Keys == {available_describe_commands[i].key : i \in 1..Len(available_describe_commands)}

Lines == {w \o x : w \in Keys \cup OtherWords, x \in Suffixes}

PInit ==
    /\ describe_line \in Lines
    /\ accept_unknown \in BOOLEAN
    /\ ppc = "args"
    /\ parsed = RaiseOf(<<>>)
    /\ PAlone

ParseLine ==
    /\ ppc = "args"
    /\ ppc' = "done"
    /\ parsed' = parse_describe_line(describe_line, accept_unknown)
    /\ UNCHANGED <<describe_line, accept_unknown>>
    /\ UNCHANGED POthers

PNext == ParseLine

SpecP == PInit /\ [][PNext]_vars

(***************************************************************************)
(* Claims on the line parser                                               *)
(***************************************************************************)
KeyedAt(line, i) == StartsWith(line, available_describe_commands[i].key)
Keyed(line) == \E i \in 1..Len(available_describe_commands) : KeyedAt(line, i)
FirstKey(line) ==
    CHOOSE i \in 1..Len(available_describe_commands) :
        KeyedAt(line, i) /\ \A j \in 1..(i - 1) : ~KeyedAt(line, j)

\* C9: a line that starts with a registered keyword is parsed by the kind of
\* the first such keyword in registry order, given the rest of the line,
\* with accept_unknown true as well as false.
C9_FirstKeywordParses ==
    (ppc = "done" /\ Keyed(describe_line)) =>
        LET entry == available_describe_commands[FirstKey(describe_line)]
        IN  parsed = ParseWith(entry, SubSeq(describe_line, Len(entry.key) + 1,
                                             Len(describe_line)))

\* C10: a line that starts with no registered keyword gives, with
\* accept_unknown, an unrecognized-line command that renders as the line,
\* and without it a parse error whose message holds the line, and no command.
C10_UnknownLine ==
    (ppc = "done" /\ ~Keyed(describe_line)) =>
        IF accept_unknown
        THEN /\ parsed.outcome = "returned"
             /\ parsed.command.cls = "UnknownDescribeCommand"
             /\ UnknownDescribeCommand_str(parsed.command) = describe_line
        ELSE /\ parsed.outcome = "raised"
             /\ parsed.command = NoCommand
             /\ Contains(parsed.message, describe_line)

C10_WitnessTolerated ==
    /\ ppc = "done" /\ accept_unknown
    /\ describe_line = <<"i", "n", "c", "l", "u", "d", "e", " ", "a", ".", "g", "w", "l">>
    /\ parsed.outcome = "returned"
    /\ UnknownDescribeCommand_str(parsed.command) = describe_line

(***************************************************************************)
(* describe_commands: the text of a command                                *)
(***************************************************************************)
RECURSIVE NatChars(_)
NatChars(n) ==
    IF n < 10 THEN <<DigitChars[n + 1]>>
    ELSE NatChars(n \div 10) \o <<DigitChars[(n % 10) + 1]>>

RECURSIVE Zeros(_)
Zeros(n) == IF n <= 0 THEN <<>> ELSE <<"0">> \o Zeros(n - 1)

\* str of an int
str_int(n) == IF n < 0 THEN <<"-">> \o NatChars(-n) ELSE NatChars(n)

\* str of a float: the shortest decimal text, with ".0" for a whole number.
\* (No number of the model is small or large enough for an exponent.)
str_float(x) ==
    LET a == IF x.mant < 0 THEN -x.mant ELSE x.mant
        ds == Zeros(x.exp + 1 - Len(NatChars(a))) \o NatChars(a)
        whole == SubSeq(ds, 1, Len(ds) - x.exp)
        frac == IF x.exp = 0 THEN <<"0">> ELSE SubSeq(ds, Len(ds) - x.exp + 1, Len(ds))
    IN  (IF x.mant < 0 THEN <<"-">> ELSE <<>>) \o whole \o <<".">> \o frac

\* f"{self.value}" of Describe_var, Describe_local, Describe_set
str_value(v) ==
    CASE v.kind = "int" -> str_int(v.num.mant)
      [] v.kind = "float" -> str_float(v.num)
      [] v.kind = "str" -> v.chars

EntryOf(cls) ==
    available_describe_commands[
        CHOOSE i \in 1..Len(available_describe_commands) :
            available_describe_commands[i].cls = cls]

\* __class__.__name__: the key, with the "Describe" that the registry took off
ClassName(entry) ==
    IF Head(entry.key) = "_"
    THEN <<"D", "e", "s", "c", "r", "i", "b", "e">> \o entry.key
    ELSE entry.key

\* An int given to a field declared float stays an int: it is kept with
\* exp = -1 and written without a point.
IntGiven(n) == [mant |-> n, exp |-> -1]

\* str(v) of the field of a class with one field
str_field(entry, v) ==
    CASE entry.parser = "float" -> IF v.exp < 0 THEN str_int(v.mant) ELSE str_float(v)
      [] entry.parser = "int" -> str_int(v)
      [] OTHER -> v

\* DescribeCommand.__str__
DescribeCommand_str(command) ==
    LET entry == EntryOf(command.cls)
        valstr == IF command.args = <<>> THEN <<>> ELSE str_field(entry, command.args[1])
    IN  ClassName(entry) \o <<" ">> \o valstr

\* str(command): the __str__ of the class of the command
str(command) ==
    LET cls == command.cls
        a == command.args
    IN  CASE cls = "UnknownDescribeCommand" -> UnknownDescribeCommand_str(command)
          [] cls \in {"XOffset", "YOffset", "ZOffset"} ->
                EntryOf(cls).key \o <<" ">> \o str_float(a[1]) \o <<"\n">>
          [] cls = "StageVelocity" ->
                <<"S", "t", "a", "g", "e", "V", "e", "l", "o", "c", "i", "t", "y", " ">>
                    \o str_int(a[1]) \o <<"\n">>
          [] cls = "Describe_include" ->
                <<"i", "n", "c", "l", "u", "d", "e", " ">> \o a[1]
          [] cls = "Describe_var" ->
                <<"v", "a", "r", " ">> \o a[1].chars \o <<" ", "=", " ">> \o str_value(a[2])
          [] cls = "Describe_local" ->
                <<"l", "o", "c", "a", "l", " ">> \o a[1].chars \o <<" ", "=", " ">>
                    \o str_value(a[2])
          [] cls = "Describe_set" ->
                <<"s", "e", "t", " ">> \o a[1].chars \o <<" ", "=", " ">> \o str_value(a[2])
          [] cls = "Describe_empty" -> <<>>
          [] cls = "Describe_if" -> <<"i", "f", " ">> \o a[1]
          [] cls = "WriteText" ->
                <<"W", "r", "i", "t", "e", "T", "e", "x", "t", " ", "\"">> \o a[1] \o <<"\"">>
          [] cls = "MessageOut" ->
                <<"M", "e", "s", "s", "a", "g", "e", "O", "u", "t", " ", "\"">> \o a[1]
                    \o <<"\"">>
          [] cls = "Comment" -> <<COMMENT_CHAR, " ">> \o a[1]
          [] OTHER -> DescribeCommand_str(command)

(***************************************************************************)
(* A command rendered and parsed again, as a state machine: the command is *)
(* drawn at Init.                                                          *)
(***************************************************************************)
FloatValues == {[mant |-> 0, exp |-> 0], [mant |-> -25, exp |-> 1], [mant |-> 10, exp |-> 0],
                [mant |-> 5, exp |-> 2]}
IntValues == {0, -3, 200}
StrValues == {<<"a">>, <<"a", ".", "g", "w", "l">>, <<"$", "v">>}
VarNames == {<<"$", "a">>, <<"$", "v", "_", "1">>}
VarValues == {IntValue(0), IntValue(-3), FloatValue([mant |-> -25, exp |-> 1]),
              StrValue(<<"b">>)}

\* The commands of a class: the values its constructor takes.
InstancesOf(entry) ==
    CASE entry.parser = "none" -> {Command(entry.cls, <<>>)}
      [] entry.parser = "float" -> {Command(entry.cls, <<v>>) : v \in FloatValues}
      [] entry.parser = "int" -> {Command(entry.cls, <<v>>) : v \in IntValues}
      [] entry.parser \in {"str", "include"} -> {Command(entry.cls, <<v>>) : v \in StrValues}
      [] entry.parser = "var" ->
            {Command(entry.cls, <<StrValue(n), v>>) : n \in VarNames, v \in VarValues}

CommandInstances ==
    UNION {InstancesOf(available_describe_commands[i]) :
               i \in 1..Len(available_describe_commands)}

CInit ==
    /\ instance \in CommandInstances
    /\ rendered = <<>>
    /\ reparsed = RaiseOf(<<>>)
    /\ cpc = "made"
    /\ CAlone

Render ==
    /\ cpc = "made"
    /\ rendered' = str(instance)
    /\ cpc' = "rendered"
    /\ UNCHANGED <<instance, reparsed>>
    /\ UNCHANGED COthers

Reparse ==
    /\ cpc = "rendered"
    /\ reparsed' = parse_describe_line(rendered, FALSE)
    /\ cpc' = "parsed"
    /\ UNCHANGED <<instance, rendered>>
    /\ UNCHANGED COthers

CNext == Render \/ Reparse

SpecC == CInit /\ [][CNext]_vars

(***************************************************************************)
(* Claims on rendering and parsing again                                   *)
(***************************************************************************)
\* The parse gave a command of the class of the instance with its values.
SameAgain ==
    /\ reparsed.outcome = "returned"
    /\ reparsed.command.cls = instance.cls
    /\ reparsed.command.args = instance.args

\* C11: for a command of a class with one field and the default parser
\* (the comment and the unrecognized line apart), parsing its rendering with
\* unknowns rejected gives a command of the same class with the same value.
C11_SingleFieldRoundTrip ==
    (/\ cpc = "parsed"
     /\ EntryOf(instance.cls).parser \in {"float", "int", "str"}
     /\ instance.cls \notin {"UnknownDescribeCommand", "Comment"}) => SameAgain

\* C12: for an include command with a path ending in ".gwl" and for a var,
\* local or set command, parsing its rendering gives a command of the same
\* class with the same path, respectively the same name and value.
C12_CustomParsersRoundTrip ==
    (/\ cpc = "parsed"
     /\ \/ EntryOf(instance.cls).parser = "var"
        \/ /\ instance.cls = "Describe_include"
           /\ EndsWith(instance.args[1], <<".", "g", "w", "l">>)) => SameAgain

\* C13: the first key of the registry, in its order, that the rendering of a
\* command of a registered class (the unrecognized line apart) starts with
\* is the key of that class.
C13_FirstKeyIsOwnKey ==
    (cpc # "made" /\ instance.cls # "UnknownDescribeCommand") =>
        /\ Keyed(rendered)
        /\ available_describe_commands[FirstKey(rendered)].cls = instance.cls

(***************************************************************************)
(* GwlHandler: the job document                                            *)
(*                                                                         *)
(* Each operation is given the document (gwl_commands) and gives the       *)
(* document it leaves and whether it returned or raised.  The text of a    *)
(* comment or of a name is kept in one piece.                              *)
(***************************************************************************)
MaxTargets == 2    \* resolved targets of a job
MaxOps == 2        \* operations on one handler

Comment(cmt) == Command("Comment", <<cmt>>)
Describe_empty == Command("Describe_empty", <<>>)
Describe_var(name, value) == Command("Describe_var", <<StrValue(name), value>>)

Done(doc) == [doc |-> doc, outcome |-> "returned"]
Failed(doc) == [doc |-> doc, outcome |-> "raised"]

add_header(doc) == Done(Append(doc, Comment(<<"File Generated by DesCRIPT-python alpha">>)))

\* A mutation: the z-axis inversion is not read from the recipe.
add_system_initialisation_fixed(doc, r) ==
    Done(doc \o <<Comment(<<"System initialization">>), Command("InvertZAxis", <<0>>)>>)

add_system_initialisation(doc, r) ==
    Done(doc \o <<Comment(<<"System initialization">>),
                  Command("InvertZAxis", <<IF r["Output.InvertZAxis"] THEN 1 ELSE 0>>)>>)

\* The commands of add_writing_configuration after the scan mode.
WritingConfigurationTail(r) ==
    <<Command("ContinuousMode", <<>>),
      Command("PiezoSettlingTime", <<IntGiven(10)>>),
      Command("GalvoAcceleration", <<r["Exposure.GalvoAcceleration"]>>),
      Command("StageVelocity", <<20000>>)>>

\* A mutation: both scan modes are written, whatever the recipe says.
add_writing_configuration_both(doc, r) ==
    Done(Append(doc, Comment(<<"Writing configuration">>))
         \o <<Command("GalvoScanMode", <<>>), Command("PiezoScanMode", <<>>)>>
         \o WritingConfigurationTail(r))

add_writing_configuration(doc, r) ==
    LET commented == Append(doc, Comment(<<"Writing configuration">>))
        scanmode == r["Output.ScanMode"]
    IN  CASE scanmode = "Galvo" ->
                Done(Append(commented, Command("GalvoScanMode", <<>>))
                     \o WritingConfigurationTail(r))
          [] scanmode = "Piezo" ->
                Done(Append(commented, Command("PiezoScanMode", <<>>))
                     \o WritingConfigurationTail(r))
          [] OTHER -> Failed(commented)

add_field_offsets(doc) ==
    Done(doc \o <<Comment(<<"Scan field offsets">>),
                  Command("XOffset", <<[mant |-> 0, exp |-> 0]>>),
                  Command("YOffset", <<[mant |-> 0, exp |-> 0]>>),
                  Command("ZOffset", <<[mant |-> 0, exp |-> 0]>>)>>)

add_writing_parameters(doc, r) ==
    Done(doc \o <<Comment(<<"Writing parameters">>),
                  Command("PowerScaling", <<[mant |-> 1, exp |-> 0]>>),
                  Describe_empty,
                  Comment(<<"Contour writing parameters">>),
                  Describe_var(<<"$contourLaserPower">>, r["Exposure.ShellLaserPower"]),
                  Describe_var(<<"$contourScanSpeed">>, r["Exposure.ShellScanSpeed"]),
                  Describe_empty,
                  Comment(<<"Solid hatch lines writing parameters">>),
                  Describe_var(<<"$solidLaserPower">>, r["Exposure.CoreLaserPower"]),
                  Describe_var(<<"$solidScanSpeed">>, r["Exposure.CoreScanSpeed"]),
                  Describe_var(<<"$interfacePos">>, r["Exposure.FindInterfaceAt"])>>)

add_command(doc, command) == Done(Append(doc, command))

reset(doc) == Done(<<>>)

\* The loop of read_job_file over the lines of the file.
RECURSIVE ReadLines(_, _, _)
ReadLines(doc, lines, accept_unknown_commands) ==
    IF lines = <<>> THEN Done(doc)
    ELSE LET line == Strip(Head(lines), Whitespace)
             cmd == parse_describe_line(line, accept_unknown_commands)
         IN  IF line = <<>> THEN ReadLines(doc, Tail(lines), accept_unknown_commands)
             ELSE IF cmd.outcome = "raised" THEN Failed(doc)
             ELSE ReadLines(Append(doc, cmd.command), Tail(lines), accept_unknown_commands)

\* read_job_file; file.open raises when there is no file.
read_job_file(doc, file, withreset, accept_unknown_commands) ==
    LET start == IF withreset THEN add_header(reset(doc).doc).doc ELSE doc
    IN  IF ~file.exists THEN Failed(start)
        ELSE ReadLines(start, file.lines, accept_unknown_commands)

get_gwlstrings(doc) == [i \in 1..Len(doc) |-> str(doc[i])]

\* The text that write_file writes.
write_file(doc) == Flatten([i \in 1..Len(doc) |-> get_gwlstrings(doc)[i] \o <<"\n">>])

(***************************************************************************)
(* NanoscribeGdsHandler.create_print_job                                   *)
(***************************************************************************)
NoOrigin == <<>>
out_dir == <<"out">>

\* A number of the layout as the float it is written from.
FloatOf(n) == [mant |-> n, exp |-> 0]

\* str(include_file) of create_print_job: the path from out_dir when the
\* file is under out_dir, the whole path otherwise.
IncludePath(include_file) ==
    IF include_file.dir = out_dir THEN include_file.rel
    ELSE include_file.dir \o <<"/">> \o include_file.rel

\* A mutation: every movement is taken from the print origin.
AddTargets_from_origin(doc, assos, k, current_pos) ==
    Done(doc \o Flatten([i \in 1..Len(assos) |->
            <<Describe_empty,
              Comment(<<"Nanoscribe Zone ">> \o NatChars(i - 1) \o <<": ", assos[i].cell>>),
              Command("MoveStageX",
                      <<FloatOf(assos[i].transformation.origin[1] - current_pos[1])>>),
              Command("MoveStageY",
                      <<FloatOf(assos[i].transformation.origin[2] - current_pos[2])>>),
              Command("Describe_include", <<IncludePath(assos[i].include_file)>>)>>]))

\* The loop of create_print_job from the k-th association on.  An
\* association that process_cell never saw has no include_file (None), and
\* the call on it raises.
RECURSIVE AddTargets(_, _, _, _)
AddTargets(doc, assos, k, current_pos) ==
    IF k > Len(assos) THEN Done(doc)
    ELSE LET asso == assos[k]
             printpos == asso.transformation.origin
             move == <<printpos[1] - current_pos[1], printpos[2] - current_pos[2]>>
             moved == doc \o <<Describe_empty,
                               Comment(<<"Nanoscribe Zone ">> \o NatChars(k - 1)
                                       \o <<": ", asso.cell>>),
                               Command("MoveStageX", <<FloatOf(move[1])>>),
                               Command("MoveStageY", <<FloatOf(move[2])>>)>>
         IN  IF ~asso.include_file.set THEN Failed(moved)
             ELSE AddTargets(Append(moved, Command("Describe_include",
                                                   <<IncludePath(asso.include_file)>>)),
                             assos, k + 1, printpos)

create_print_job(doc, r, origin, assos) ==
    LET initialised == add_system_initialisation(add_header(doc).doc, r).doc
        configured == add_writing_configuration(add_command(initialised, Describe_empty).doc, r)
        parametered == add_writing_parameters(add_command(configured.doc, Describe_empty).doc, r).doc
    IN  IF configured.outcome = "raised" THEN configured
        ELSE IF origin = NoOrigin THEN Failed(parametered)
        ELSE AddTargets(parametered, assos, 1, origin)

(***************************************************************************)
(* The job document as a state machine: a handler with its recipe, print   *)
(* origin and resolved targets, on which the operations of GwlHandler,     *)
(* create_print_job and write_file are called in any order.                *)
(***************************************************************************)
\* describerecipe.recipe: the fields the job reads, the numbers as in
\* constants.DEFAULT_RECIPE
Recipe(scanmode, invert) ==
    ("Output.ScanMode" :> scanmode) @@ ("Output.InvertZAxis" :> invert)
    @@ ("Exposure.GalvoAcceleration" :> IntGiven(1))
    @@ ("Exposure.FindInterfaceAt" :> FloatValue([mant |-> 5, exp |-> 1]))
    @@ ("Exposure.ShellLaserPower" :> IntValue(36))
    @@ ("Exposure.ShellScanSpeed" :> IntValue(20000))
    @@ ("Exposure.CoreLaserPower" :> IntValue(40))
    @@ ("Exposure.CoreScanSpeed" :> IntValue(20000))

Recipes == {Recipe("Galvo", TRUE), Recipe("Piezo", FALSE), Recipe("Stage", TRUE)}

PrintOrigins == {NoOrigin, <<0, 0>>}
TargetOrigins == {<<0, 0>>, <<10, 5>>}

\* Where the include files of the targets are: under out_dir, elsewhere, or
\* nowhere (process_cell was not called).
IncludeModes == {"inside", "outside", "none"}

IncludeFile(i, mode) ==
    CASE mode = "inside" -> [set |-> TRUE, dir |-> out_dir, rel |-> NatChars(i) \o <<"_a_data.gwl">>]
      [] mode = "outside" -> [set |-> TRUE, dir |-> <<"tmp">>, rel |-> NatChars(i) \o <<"_a_data.gwl">>]
      [] mode = "none" -> [set |-> FALSE, dir |-> <<>>, rel |-> <<>>]

\* A CellAssociation
Association(i, origin, mode) ==
    [cell |-> "zone", transformation |-> CellTransformation(1, origin, FALSE, 0),
     include_file |-> IncludeFile(i, mode)]

AssociationLists ==
    {[i \in 1..Len(os) |-> Association(i, os[i], mode)] :
        os \in UNION {[1..n -> TargetOrigins] : n \in 0..MaxTargets}, mode \in IncludeModes}

\* The files read_job_file is given: their lines as readlines gives them.
JobFiles ==
    { [exists |-> FALSE, lines |-> <<>>],
      [exists |-> TRUE,
       lines |-> << <<"G", "a", "l", "v", "o", "S", "c", "a", "n", "M", "o", "d", "e", "\n">>,
                    <<" ", "\n">>,
                    <<" ", "W", "a", "i", "t", " ", "1", "\n">> >>],
      [exists |-> TRUE, lines |-> << <<"G", "0", "1", "\n">> >>] }

GInit ==
    /\ gwl_commands = <<>>
    /\ recipe \in Recipes
    /\ print_origin \in PrintOrigins
    /\ associations \in AssociationLists
    /\ gop = [name |-> "__init__", outcome |-> "returned", before |-> <<>>]
    /\ written = <<>>
    /\ nops = 0
    /\ GAlone

\* An operation on the document: what it leaves, and the record of it.
Operate(name, result) ==
    /\ gwl_commands' = result.doc
    /\ gop' = [name |-> name, outcome |-> result.outcome, before |-> gwl_commands]
    /\ nops' = nops + 1
    /\ UNCHANGED <<recipe, print_origin, associations, written>>
    /\ UNCHANGED GOthers

AddHeader ==
    /\ nops < MaxOps
    /\ Operate("add_header", add_header(gwl_commands))

AddSystemInitialisation ==
    /\ nops < MaxOps
    /\ Operate("add_system_initialisation", add_system_initialisation(gwl_commands, recipe))

AddWritingConfiguration ==
    /\ nops < MaxOps
    /\ Operate("add_writing_configuration", add_writing_configuration(gwl_commands, recipe))

AddFieldOffsets ==
    /\ nops < MaxOps
    /\ Operate("add_field_offsets", add_field_offsets(gwl_commands))

AddWritingParameters ==
    /\ nops < MaxOps
    /\ Operate("add_writing_parameters", add_writing_parameters(gwl_commands, recipe))

AddCommand ==
    /\ nops < MaxOps
    /\ \E command \in {Describe_empty} :
        Operate("add_command", add_command(gwl_commands, command))

Reset ==
    /\ nops < MaxOps
    /\ Operate("reset", reset(gwl_commands))

ReadJobFile ==
    /\ nops < MaxOps
    /\ \E file \in JobFiles, withreset \in BOOLEAN, accept_unknown_commands \in BOOLEAN :
        Operate("read_job_file",
                read_job_file(gwl_commands, file, withreset, accept_unknown_commands))

CreatePrintJob ==
    /\ nops < MaxOps
    /\ Operate("create_print_job",
            create_print_job(gwl_commands, recipe, print_origin, associations))

WriteFile ==
    /\ nops < MaxOps
    /\ written' = write_file(gwl_commands)
    /\ gop' = [name |-> "write_file", outcome |-> "returned", before |-> gwl_commands]
    /\ nops' = nops + 1
    /\ UNCHANGED <<gwl_commands, recipe, print_origin, associations>>
    /\ UNCHANGED GOthers

GNext ==
    \/ AddHeader \/ AddSystemInitialisation \/ AddWritingConfiguration \/ AddFieldOffsets
    \/ AddWritingParameters \/ AddCommand \/ Reset \/ ReadJobFile \/ CreatePrintJob
    \/ WriteFile

SpecG == GInit /\ [][GNext]_vars

(***************************************************************************)
(* Claims on the job document                                              *)
(***************************************************************************)
IsPrefix(s, t) == Len(s) <= Len(t) /\ SubSeq(t, 1, Len(s)) = s

\* What the last operation added to the document it found.
Emitted == SubSeq(gwl_commands, Len(gop.before) + 1, Len(gwl_commands))

ClassesOf(doc) == [i \in 1..Len(doc) |-> doc[i].cls]
OfClasses(doc, classes) == SelectSeq(doc, LAMBDA c : c.cls \in classes)
ScanModeOf(r) == r["Output.ScanMode"]

\* C14: after each public operation of GwlHandler the document it found is
\* a prefix of the document it leaves.
C14_AppendOnly ==
    (gop.name \in {"add_header", "add_system_initialisation", "add_writing_configuration",
                   "add_field_offsets", "add_writing_parameters", "add_command", "reset",
                   "read_job_file"}) => IsPrefix(gop.before, gwl_commands)

\* The number of commands of the first three blocks with their blank lines,
\* and of these with the writing-parameters block.
HeadLen == 11
PreambleLen == 22

\* C15: after a create_print_job that returned on a handler with an empty
\* document, the document starts with the header comment, the system
\* initialization (comment, InvertZAxis of the recipe), a blank line, the
\* writing configuration (comment, one scan mode, ContinuousMode,
\* PiezoSettlingTime, GalvoAcceleration, StageVelocity), a blank line, and
\* the writing-parameters block, whose commands other than comments and
\* blank lines are PowerScaling, the two contour variables, the two solid
\* variables and the interface position; every command of a target comes
\* after all of these.
C15_FixedBlockOrder ==
    (gop.name = "create_print_job" /\ gop.outcome = "returned" /\ gop.before = <<>>) =>
        LET doc == gwl_commands
            params == OfClasses(SubSeq(doc, HeadLen + 1, PreambleLen),
                                {"PowerScaling", "Describe_var"})
        IN  /\ Len(doc) >= PreambleLen
            /\ ClassesOf(SubSeq(doc, 1, 5))
                 = <<"Comment", "Comment", "InvertZAxis", "Describe_empty", "Comment">>
            /\ doc[3].args = <<IF recipe["Output.InvertZAxis"] THEN 1 ELSE 0>>
            /\ doc[6].cls \in {"GalvoScanMode", "PiezoScanMode"}
            /\ ClassesOf(SubSeq(doc, 7, HeadLen))
                 = <<"ContinuousMode", "PiezoSettlingTime", "GalvoAcceleration",
                     "StageVelocity", "Describe_empty">>
            /\ \A i \in (HeadLen + 1)..PreambleLen :
                   doc[i].cls \in {"Comment", "Describe_empty", "PowerScaling", "Describe_var"}
            /\ ClassesOf(params) = <<"PowerScaling", "Describe_var", "Describe_var",
                                     "Describe_var", "Describe_var", "Describe_var">>
            /\ [i \in 2..6 |-> params[i].args[1].chars]
                 = [i \in 2..6 |-> << <<"$contourLaserPower">>, <<"$contourScanSpeed">>,
                                      <<"$solidLaserPower">>, <<"$solidScanSpeed">>,
                                      <<"$interfacePos">> >>[i - 1]]
            /\ \A i \in 1..Len(doc) :
                   doc[i].cls \in {"MoveStageX", "MoveStageY", "Describe_include"}
                       => i > PreambleLen

C15_Witness ==
    /\ gop.name = "create_print_job" /\ gop.outcome = "returned" /\ gop.before = <<>>
    /\ Len(associations) = 2
    /\ recipe["Output.InvertZAxis"]
    /\ gwl_commands[3] = Command("InvertZAxis", <<1>>)
    /\ gwl_commands[6].cls = "GalvoScanMode"
    /\ Len(gwl_commands) = PreambleLen + 10

\* C16: add_writing_configuration adds exactly one scan-mode command:
\* GalvoScanMode for 'Galvo', PiezoScanMode for 'Piezo'; for another value it
\* raises and adds no scan-mode command.
C16_OneScanMode ==
    (gop.name = "add_writing_configuration") =>
        LET modes == OfClasses(Emitted, {"GalvoScanMode", "PiezoScanMode"})
        IN  /\ IsPrefix(gop.before, gwl_commands)
            /\ CASE ScanModeOf(recipe) = "Galvo" ->
                        gop.outcome = "returned" /\ ClassesOf(modes) = <<"GalvoScanMode">>
                 [] ScanModeOf(recipe) = "Piezo" ->
                        gop.outcome = "returned" /\ ClassesOf(modes) = <<"PiezoScanMode">>
                 [] OTHER -> gop.outcome = "raised" /\ modes = <<>>

C16_Witness ==
    /\ gop.name = "add_writing_configuration" /\ gop.outcome = "returned"
    /\ gop.before # <<>>
    /\ ScanModeOf(recipe) = "Piezo"
    /\ Emitted[2] = Command("PiezoScanMode", <<>>)
    /\ Len(Emitted) = 6

\* C17: with a scan mode that is neither 'Galvo' nor 'Piezo',
\* create_print_job and add_writing_configuration raise and leave the
\* document as they found it.
C17_InvalidScanModeEmitsNothing ==
    (/\ gop.name \in {"create_print_job", "add_writing_configuration"}
     /\ ScanModeOf(recipe) \notin {"Galvo", "Piezo"}) =>
        /\ gop.outcome = "raised"
        /\ gwl_commands = gop.before

RECURSIVE SumOfMoves(_, _)
SumOfMoves(moves, k) ==
    IF k = 0 THEN 0 ELSE moves[k].args[1].mant + SumOfMoves(moves, k - 1)

\* C18: a create_print_job that returned added one MoveStageX, MoveStageY
\* pair per target, in the order of the list; the k-th pair is the origin of
\* target k minus the origin of target k-1 (the print origin for k = 1), and
\* the first k pairs add up to the origin of target k minus the print origin.
C18_MovesAreDeltas ==
    (gop.name = "create_print_job" /\ gop.outcome = "returned") =>
        LET xs == OfClasses(Emitted, {"MoveStageX"})
            ys == OfClasses(Emitted, {"MoveStageY"})
            both == OfClasses(Emitted, {"MoveStageX", "MoveStageY"})
            at(k) == IF k = 0 THEN print_origin ELSE associations[k].transformation.origin
        IN  /\ Len(xs) = Len(associations) /\ Len(ys) = Len(associations)
            /\ \A k \in 1..Len(associations) :
                   /\ both[2 * k - 1] = xs[k] /\ both[2 * k] = ys[k]
                   /\ xs[k].args[1] = FloatOf(at(k)[1] - at(k - 1)[1])
                   /\ ys[k].args[1] = FloatOf(at(k)[2] - at(k - 1)[2])
                   /\ SumOfMoves(xs, k) = at(k)[1] - at(0)[1]
                   /\ SumOfMoves(ys, k) = at(k)[2] - at(0)[2]

C18_Witness ==
    /\ gop.name = "create_print_job" /\ gop.outcome = "returned"
    /\ print_origin = <<0, 0>>
    /\ Len(associations) = 2
    /\ associations[1].transformation.origin = <<0, 0>>
    /\ associations[2].transformation.origin = <<10, 5>>
    /\ OfClasses(Emitted, {"MoveStageX", "MoveStageY"})
         = <<Command("MoveStageX", <<FloatOf(0)>>), Command("MoveStageY", <<FloatOf(0)>>),
             Command("MoveStageX", <<FloatOf(10)>>), Command("MoveStageY", <<FloatOf(5)>>)>>

\* The lines of a text: what comes before each line break.
RECURSIVE SplitLines(_)
SplitLines(text) ==
    IF text = <<>> THEN <<>>
    ELSE IF IndexOf(text, "\n") = 0 THEN <<text>>
    ELSE <<SubSeq(text, 1, IndexOf(text, "\n") - 1)>>
         \o SplitLines(SubSeq(text, IndexOf(text, "\n") + 1, Len(text)))

\* C19: the text written by write_file has as many lines as the document has
\* commands, and its i-th line is the text of the i-th command.
C19_OneCommandPerLine ==
    (gop.name = "write_file") =>
        /\ Len(SplitLines(written)) = Len(gwl_commands)
        /\ \A i \in 1..Len(gwl_commands) : SplitLines(written)[i] = str(gwl_commands[i])

(***************************************************************************)
(* DescribeRecipe: the keys of the recipe and the casts of its values      *)
(*                                                                         *)
(* A Python value is a record as the values of Describe_var are, a bool    *)
(* among them; a key and a text of constants.py are kept in one piece.     *)
(***************************************************************************)
BoolValue(b) == [kind |-> "bool", num |-> [mant |-> IF b THEN 1 ELSE 0, exp |-> 0],
                 chars |-> <<>>]

\* constants.DEFAULT_RECIPE
DEFAULT_RECIPE ==
    ("Version" :> FloatValue([mant |-> 13, exp |-> 1]))
    @@ ("Model.Type" :> StrValue(<<"Mesh">>))
    @@ ("Model.FilePath" :> StrValue(<<>>))
    @@ ("Model.Transformation" :> StrValue(<<"[M11:1 M12:0 M13:0 M14:0] [M21:0 M22:1 M23:0 M24:0] [M31:0 M32:0 M33:1 M34:0] [M41:0 M42:0 M43:0 M44:1]">>))
    @@ ("Model.BoundingBox" :> StrValue(<<"Minimum:X:0 Y:0 Z:0 Maximum:X:0 Y:0 Z:0">>))
    @@ ("Model.Rotation" :> StrValue(<<"X:0 Y:0 Z:0 W:1">>))
    @@ ("Model.Scaling" :> StrValue(<<"X:1 Y:1 Z:1">>))
    @@ ("Model.Translation" :> StrValue(<<"X:0 Y:0 Z:0">>))
    @@ ("Slicing.Mode" :> StrValue(<<"Fixed">>))
    @@ ("Slicing.DistanceMax" :> FloatValue([mant |-> 1, exp |-> 1]))
    @@ ("Slicing.SimplificationTolerance" :> IntValue(0))
    @@ ("Slicing.FixSelfIntersections" :> BoolValue(TRUE))
    @@ ("Filling.Mode" :> StrValue(<<"Solid">>))
    @@ ("Filling.SolidContourCount" :> IntValue(2))
    @@ ("Filling.SolidContourDistance" :> FloatValue([mant |-> 1, exp |-> 1]))
    @@ ("Filling.ConcaveCornerMode" :> StrValue(<<"Sharp">>))
    @@ ("Filling.HatchingDistance" :> FloatValue([mant |-> 1, exp |-> 1]))
    @@ ("Filling.HatchingAngle" :> IntValue(0))
    @@ ("Filling.HatchingAngleOffset" :> IntValue(30))
    @@ ("Splitting.Mode" :> StrValue(<<"None">>))
    @@ ("Splitting.BlockSize" :> StrValue(<<"X:100 Y:100 Z:10">>))
    @@ ("Splitting.BlockOffset" :> StrValue(<<"X:0 Y:0 Z:0">>))
    @@ ("Splitting.BlockShearAngle" :> IntValue(0))
    @@ ("Splitting.BlockOverlap" :> IntValue(0))
    @@ ("Splitting.LayerOverlap" :> IntValue(0))
    @@ ("Splitting.BlockWidth" :> StrValue(<<"X:100.00 Y:100.0 Z:10">>))
    @@ ("Splitting.BlockOrderMode" :> StrValue(<<"Meander">>))
    @@ ("Splitting.AvoidFlyingBlocks" :> BoolValue(TRUE))
    @@ ("Splitting.GroupBlocks" :> BoolValue(FALSE))
    @@ ("Splitting.UseBacklashCorrection" :> BoolValue(TRUE))
    @@ ("Output.ScanMode" :> StrValue(<<"Galvo">>))
    @@ ("Output.ZAxis" :> StrValue(<<"Piezo">>))
    @@ ("Output.Exposure" :> StrValue(<<"Variable">>))
    @@ ("Output.InvertZAxis" :> BoolValue(TRUE))
    @@ ("Output.WritingDirection" :> StrValue(<<"Up">>))
    @@ ("Output.HatchLineMode" :> StrValue(<<"Alternate">>))
    @@ ("Exposure.GalvoAcceleration" :> IntValue(1))
    @@ ("Exposure.FindInterfaceAt" :> FloatValue([mant |-> 5, exp |-> 1]))
    @@ ("Exposure.ShellLaserPower" :> IntValue(36))
    @@ ("Exposure.ShellScanSpeed" :> IntValue(20000))
    @@ ("Exposure.CoreLaserPower" :> IntValue(40))
    @@ ("Exposure.CoreScanSpeed" :> IntValue(20000))

\* The keys of DEFAULT_RECIPE, in its order.
KeyOrder ==
    <<"Version",
      "Model.Type",
      "Model.FilePath",
      "Model.Transformation",
      "Model.BoundingBox",
      "Model.Rotation",
      "Model.Scaling",
      "Model.Translation",
      "Slicing.Mode",
      "Slicing.DistanceMax",
      "Slicing.SimplificationTolerance",
      "Slicing.FixSelfIntersections",
      "Filling.Mode",
      "Filling.SolidContourCount",
      "Filling.SolidContourDistance",
      "Filling.ConcaveCornerMode",
      "Filling.HatchingDistance",
      "Filling.HatchingAngle",
      "Filling.HatchingAngleOffset",
      "Splitting.Mode",
      "Splitting.BlockSize",
      "Splitting.BlockOffset",
      "Splitting.BlockShearAngle",
      "Splitting.BlockOverlap",
      "Splitting.LayerOverlap",
      "Splitting.BlockWidth",
      "Splitting.BlockOrderMode",
      "Splitting.AvoidFlyingBlocks",
      "Splitting.GroupBlocks",
      "Splitting.UseBacklashCorrection",
      "Output.ScanMode",
      "Output.ZAxis",
      "Output.Exposure",
      "Output.InvertZAxis",
      "Output.WritingDirection",
      "Output.HatchLineMode",
      "Exposure.GalvoAcceleration",
      "Exposure.FindInterfaceAt",
      "Exposure.ShellLaserPower",
      "Exposure.ShellScanSpeed",
      "Exposure.CoreLaserPower",
      "Exposure.CoreScanSpeed">>

\* DescribeRecipe.check_recipe_field
check_recipe_field(field) == field \in DOMAIN DEFAULT_RECIPE

UpperChars == <<"A", "B", "C", "D", "E", "F", "G", "H", "I", "J", "K", "L", "M",
                "N", "O", "P", "Q", "R", "S", "T", "U", "V", "W", "X", "Y", "Z">>
LowerChars == <<"a", "b", "c", "d", "e", "f", "g", "h", "i", "j", "k", "l", "m",
                "n", "o", "p", "q", "r", "s", "t", "u", "v", "w", "x", "y", "z">>

\* str.lower
lower(s) ==
    [i \in 1..Len(s) |->
        IF \E j \in 1..26 : UpperChars[j] = s[i]
        THEN LowerChars[CHOOSE j \in 1..26 : UpperChars[j] = s[i]]
        ELSE s[i]]

true_like == {<<"1">>, <<"t", "r", "u", "e">>}
false_like == {<<"0">>, <<"f", "a", "l", "s", "e">>}

\* DescribeRecipe._strtobool
_strtobool(s) ==
    IF lower(s) \in true_like THEN [ok |-> TRUE, value |-> BoolValue(TRUE)]
    ELSE IF lower(s) \in false_like THEN [ok |-> TRUE, value |-> BoolValue(FALSE)]
    ELSE [ok |-> FALSE, value |-> BoolValue(FALSE)]

\* str(v)
py_str(v) ==
    IF v.kind = "bool"
    THEN (IF v.num.mant = 1 THEN <<"T", "r", "u", "e">> ELSE <<"F", "a", "l", "s", "e">>)
    ELSE str_value(v)

\* 10^n
RECURSIVE Pow10(_)
Pow10(n) == IF n = 0 THEN 1 ELSE 10 * Pow10(n - 1)

\* int(x) of a number: towards zero
Truncated(x) ==
    IF x.mant >= 0 THEN x.mant \div Pow10(x.exp) ELSE -((-x.mant) \div Pow10(x.exp))

\* type(DEFAULT_RECIPE[key])(val): bool(val), str(val), float(val), int(val)
Cast(field_type, val) ==
    CASE field_type = "bool" ->
            [ok |-> TRUE,
             value |-> BoolValue(IF val.kind = "str" THEN val.chars # <<>>
                                 ELSE val.num.mant # 0)]
      [] field_type = "str" -> [ok |-> TRUE, value |-> StrValue(py_str(val))]
      [] field_type = "float" ->
            IF val.kind = "str"
            THEN [ok |-> float(val.chars).ok, value |-> FloatValue(float(val.chars).value)]
            ELSE [ok |-> TRUE, value |-> FloatValue(val.num)]
      [] field_type = "int" ->
            IF val.kind = "str"
            THEN [ok |-> int(val.chars).ok, value |-> IntValue(int(val.chars).value)]
            ELSE [ok |-> TRUE, value |-> IntValue(Truncated(val.num))]

\* The outcome of an operation on a recipe: the recipe it leaves, or the
\* error it raised with what its message names.
RecipeDone(r) == [raised |-> FALSE, error |-> "", names |-> "", recipe |-> r]
RecipeError(error, names, r) == [raised |-> TRUE, error |-> error, names |-> names, recipe |-> r]

\* A mutation: a key is cast as DEFAULT_RECIPE has it if it is there, and
\* kept as it is given otherwise.
update_recipe_any_key(r, key, val) ==
    IF check_recipe_field(key)
    THEN IF Cast(DEFAULT_RECIPE[key].kind, val).ok
         THEN RecipeDone((key :> Cast(DEFAULT_RECIPE[key].kind, val).value) @@ r)
         ELSE RecipeError("ValueError", "", r)
    ELSE RecipeDone((key :> val) @@ r)

\* DescribeRecipe.update_recipe, on the dictionary
update_recipe(r, key, val) ==
    IF check_recipe_field(key)
    THEN IF Cast(DEFAULT_RECIPE[key].kind, val).ok
         THEN RecipeDone((key :> Cast(DEFAULT_RECIPE[key].kind, val).value) @@ r)
         ELSE RecipeError("ValueError", "", r)
    ELSE RecipeError("ValueError", key, r)

\* DescribeRecipe._cast_recipe_key_val: the entry it gives, as a recipe
_cast_recipe_key_val(recipe_key, recipe_val) ==
    IF check_recipe_field(recipe_key)
    THEN LET field_type == DEFAULT_RECIPE[recipe_key].kind
             casted == IF field_type = "bool" THEN _strtobool(recipe_val)
                       ELSE Cast(field_type, StrValue(recipe_val))
         IN  IF casted.ok THEN RecipeDone(recipe_key :> casted.value)
             ELSE RecipeError("ValueError", "", <<>>)
    ELSE RecipeError("ValueError", recipe_key, <<>>)

\* DescribeRecipe._recipe_from_config: the items of the section
\* default_recipe of the configuration, cast one after the other
RECURSIVE RecipeFromItems(_, _)
RecipeFromItems(items, resdict) ==
    IF items = <<>> THEN RecipeDone(resdict)
    ELSE LET casted == _cast_recipe_key_val(items[1][1], items[1][2])
         IN  IF casted.raised THEN casted
             ELSE RecipeFromItems(Tail(items), casted.recipe @@ resdict)

_recipe_from_config(config_recipe) == RecipeFromItems(config_recipe, <<>>)

\* str.split
RECURSIVE split(_, _)
split(s, sep) ==
    IF IndexOf(s, sep) = 0 THEN <<s>>
    ELSE <<SubSeq(s, 1, IndexOf(s, sep) - 1)>>
         \o split(SubSeq(s, IndexOf(s, sep) + 1, Len(s)), sep)

\* The key that a text is: keys are in one piece.
KeyOfText(t) == IF t = <<>> THEN "" ELSE t[1]

\* DescribeRecipe._recipe_from_file, on the lines of the file
RECURSIVE RecipeFromLines(_, _)
RecipeFromLines(lines, resdict) ==
    IF lines = <<>> THEN RecipeDone(resdict)
    ELSE LET parts == split(lines[1], "=")
             lsplit == [i \in 1..Len(parts) |-> Strip(parts[i], Whitespace)]
             casted == _cast_recipe_key_val(KeyOfText(lsplit[1]), lsplit[2])
         IN  IF Len(lsplit) < 2 THEN RecipeError("IndexError", "", <<>>)
             ELSE IF casted.raised THEN casted
             ELSE RecipeFromLines(Tail(lines), casted.recipe @@ resdict)

_recipe_from_file(lines) == RecipeFromLines(lines, <<>>)

\* The section default_recipe of the configuration as reset_config writes it:
\* the text of each value of DEFAULT_RECIPE.
DefaultConfigRecipe == [i \in 1..Len(KeyOrder) |-> <<KeyOrder[i], py_str(DEFAULT_RECIPE[KeyOrder[i]])>>]

(***************************************************************************)
(* DescribeRecipe and NanoscribeGdsHandler.process_cell                    *)
(*                                                                         *)
(* A number written with the format ".3f" is kept in thousandths.          *)
(***************************************************************************)
MaxCells == 2      \* resolved targets that process_cell is called on

\* The sine and cosine of half a rotation of k quarter turns, in thousandths.
SinHalfQ(k) == <<0, 707, 1000, 707, 0, -707, -1000, -707>>[(k % 8) + 1]
CosHalfQ(k) == <<1000, 707, 0, -707, -1000, -707, 0, 707>>[(k % 8) + 1]

\* CellTransformation.get_rotation_quaternion, in thousandths
get_rotation_quaternion(self) == <<0, 0, SinHalfQ(self.rotation), CosHalfQ(self.rotation)>>

\* The fields of the recipe that process_stl writes, as DescribeRecipe()
\* has them, and one field of the slicing.
DefaultModel ==
    ("Model.Type" :> "Mesh") @@ ("Model.FilePath" :> "")
    @@ ("Model.Transformation" :> Eye(4))
    @@ ("Model.BoundingBox" :> <<"bounding box of", "">>)
    @@ ("Model.Rotation" :> <<0, 0, 0, 1>>)
    @@ ("Model.Scaling" :> 1)
    @@ ("Model.Translation" :> <<0, 0, 0>>)
    @@ ("Slicing.DistanceMax" :> FloatValue([mant |-> 1, exp |-> 1]))

\* DescribeRecipe()
DescribeRecipe ==
    [recipe |-> Recipe("Galvo", TRUE) @@ DefaultModel,
     out_datgwl |-> <<>>, out_jobgwl |-> <<>>, out_recipe |-> <<>>, out_files |-> <<>>]

\* DescribeRecipe.process_stl
process_stl(self, stlpath, transformation) ==
    [self EXCEPT
        !.recipe["Model.Transformation"] =
            Scale(1000, get_transformation_matrix(transformation, FALSE)),
        !.recipe["Model.Rotation"] = get_rotation_quaternion(transformation),
        !.recipe["Model.Scaling"] = 1000 * transformation.magnification,
        !.recipe["Model.Type"] = "Mesh",
        !.recipe["Model.FilePath"] = stlpath,
        !.recipe["Model.BoundingBox"] = <<"bounding box of", stlpath>>,
        !.recipe["Model.Translation"] = <<0, 0, 0>>]

\* A mutation: two recipes are equal when they are the same object, which a
\* recipe and a copy of it never are.
DescribeRecipe_eq_identity(self, other) == FALSE

\* DescribeRecipe.__eq__
DescribeRecipe_eq(self, other) == self.recipe = other.recipe

\* self.describerecipe in self.recipes
InRecipes(r, rs) == \E i \in 1..Len(rs) : DescribeRecipe_eq(rs[i], r)

\* self.recipes.index(self.describerecipe)
IndexInRecipes(r, rs) ==
    CHOOSE i \in 1..Len(rs) :
        DescribeRecipe_eq(rs[i], r) /\ \A j \in 1..(i - 1) : ~DescribeRecipe_eq(rs[j], r)

\* What the slicer is expected to leave: the data script, the job script,
\* the backup of the recipe and the directory of files.
Artifacts == {"datgwl", "jobgwl", "recipe", "files"}

\* The path of an artifact: in the directory of the recipe, which is named
\* after the place of the recipe in the list and the mesh.
OutPath(artifact, iterator, stlpath) == <<artifact, iterator, stlpath>>

\* The out_datgwl that generate_gwl_code sets.
OutDatGwl(iterator, stlpath) == <<iterator, stlpath>>

\* A mutation: the paths are kept before the artifacts are looked for.
generate_gwl_code_unchecked(self, iterator, stlpath, produced) ==
    [raised |-> produced # Artifacts,
     self |-> [self EXCEPT !.out_files = OutPath("files", iterator, stlpath),
                           !.out_datgwl = OutDatGwl(iterator, stlpath),
                           !.out_jobgwl = OutPath("jobgwl", iterator, stlpath),
                           !.out_recipe = OutPath("recipe", iterator, stlpath)]]

\* DescribeRecipe.generate_gwl_code, the slicer having left the artifacts
\* of produced: whether it raised, and the recipe object afterwards.
generate_gwl_code(self, iterator, stlpath, produced) ==
    IF produced # Artifacts
    THEN [raised |-> TRUE, self |-> self]
    ELSE [raised |-> FALSE,
          self |-> [self EXCEPT !.out_files = OutPath("files", iterator, stlpath),
                                !.out_datgwl = OutDatGwl(iterator, stlpath),
                                !.out_jobgwl = OutPath("jobgwl", iterator, stlpath),
                                !.out_recipe = OutPath("recipe", iterator, stlpath)]]

Meshes == {"a.stl", "b.stl"}

\* The targets: a mesh with a placement; the first two differ in the origin only.
TargetKinds ==
    { [stl_file |-> "a.stl", transformation |-> CellTransformation(1, <<0, 0>>, FALSE, 0)],
      [stl_file |-> "a.stl", transformation |-> CellTransformation(1, <<10, 5>>, FALSE, 0)],
      [stl_file |-> "a.stl", transformation |-> CellTransformation(2, <<0, 0>>, TRUE, 1)],
      [stl_file |-> "b.stl", transformation |-> CellTransformation(1, <<0, 0>>, FALSE, 0)] }

\* A CellAssociation before process_cell
FreshAssociation(kind) ==
    [stl_file |-> kind.stl_file, transformation |-> kind.transformation,
     processed |-> FALSE, recipe |-> DescribeRecipe.recipe, include_file |-> <<>>]

\* What the slicer may leave: everything, or everything but one artifact.
SlicerOutcomes == {Artifacts} \cup {Artifacts \ {a} : a \in Artifacts}

\* pall when the last call was none of process_all_cells
Idle == [status |-> "idle", k |-> 0, log |-> <<>>, before |-> <<>>]

SInit ==
    /\ describerecipe = DescribeRecipe
    /\ recipes = <<>>
    /\ cells_associations \in
           UNION {[1..n -> {FreshAssociation(k) : k \in TargetKinds}] : n \in 1..MaxCells}
    /\ slicer_runs = <<>>
    /\ ncalls = 0
    /\ pall = Idle
    /\ SAlone

\* process_cell on the i-th association, the slicer leaving the artifacts of
\* produced if it is run: whether the call raised and what it leaves.  When
\* generate_gwl_code raises, the recipe is in the list by then and the
\* association is left as it was.
process_cell(i, produced) ==
    LET cell_association == cells_associations[i]
        current == process_stl(describerecipe, cell_association.stl_file,
                               cell_association.transformation)
        iterator == Len(recipes) + 1
        known == InRecipes(current, recipes)
        generated == generate_gwl_code(current, iterator, cell_association.stl_file, produced)
        cell_recipe == IF known THEN recipes[IndexInRecipes(current, recipes)]
                       ELSE generated.self
        raised == ~known /\ generated.raised
    IN  [raised |-> raised,
         sliced |-> ~known,
         describerecipe |-> current,
         recipes |-> IF known THEN recipes ELSE Append(recipes, cell_recipe),
         slicer_runs |-> IF known THEN slicer_runs ELSE Append(slicer_runs, current.recipe),
         cells_associations |->
             IF raised THEN cells_associations
             ELSE [cells_associations EXCEPT ![i].processed = TRUE,
                                             ![i].recipe = cell_recipe.recipe,
                                             ![i].include_file = cell_recipe.out_datgwl]]

\* a call of process_cell
ProcessCell ==
    /\ ncalls < MaxCells /\ pall.status # "loop"
    /\ \E i \in 1..Len(cells_associations), produced \in SlicerOutcomes :
        \E call \in {process_cell(i, produced)} :
            /\ describerecipe' = call.describerecipe
            /\ recipes' = call.recipes
            /\ slicer_runs' = call.slicer_runs
            /\ cells_associations' = call.cells_associations
    /\ ncalls' = ncalls + 1
    /\ pall' = Idle
    /\ UNCHANGED SOthers

\* describerecipe.update_recipe between two calls
UpdateRecipe ==
    /\ ncalls < MaxCells /\ pall.status # "loop"
    /\ \E val \in {FloatValue([mant |-> 1, exp |-> 1]), IntValue(2)} :
           describerecipe' =
               [describerecipe EXCEPT
                   !.recipe = update_recipe(describerecipe.recipe,
                                            "Slicing.DistanceMax", val).recipe]
    /\ ncalls' = ncalls + 1
    /\ pall' = Idle
    /\ UNCHANGED <<recipes, cells_associations, slicer_runs>>
    /\ UNCHANGED SOthers

\* A mutation: the loop goes on after a call that raised.
process_all_cells_next_goes_on(k, raised, n) ==
    IF k = n THEN [status |-> "returned", k |-> k] ELSE [status |-> "loop", k |-> k + 1]

\* process_all_cells after process_cell on the k-th of n associations: the
\* exception of process_cell leaves the loop and the call.
process_all_cells_next(k, raised, n) ==
    IF raised THEN [status |-> "raised", k |-> k]
    ELSE IF k = n THEN [status |-> "returned", k |-> k]
    ELSE [status |-> "loop", k |-> k + 1]

\* process_all_cells is called
ProcessAllBegin ==
    /\ ncalls < MaxCells /\ pall.status # "loop"
    /\ pall' = [status |-> "loop", k |-> 1, log |-> <<>>, before |-> cells_associations]
    /\ ncalls' = ncalls + 1
    /\ UNCHANGED <<describerecipe, recipes, cells_associations, slicer_runs>>
    /\ UNCHANGED SOthers

\* a turn of its loop
ProcessAllStep ==
    /\ pall.status = "loop"
    /\ \E produced \in SlicerOutcomes :
        \E call \in {process_cell(pall.k, produced)} :
        LET next == process_all_cells_next(pall.k, call.raised, Len(cells_associations))
        IN  /\ describerecipe' = call.describerecipe
            /\ recipes' = call.recipes
            /\ slicer_runs' = call.slicer_runs
            /\ cells_associations' = call.cells_associations
            /\ pall' = [pall EXCEPT
                           !.status = next.status, !.k = next.k,
                           !.log = Append(pall.log,
                                      [k |-> pall.k, sliced |-> call.sliced,
                                       produced |-> IF call.sliced THEN produced ELSE {},
                                       raised |-> call.raised,
                                       recipe |-> Len(call.recipes)])]
    /\ UNCHANGED ncalls
    /\ UNCHANGED SOthers

SNext == ProcessCell \/ UpdateRecipe \/ ProcessAllBegin \/ ProcessAllStep

SpecS == SInit /\ [][SNext]_vars

(***************************************************************************)
(* Claims on process_cell                                                  *)
(***************************************************************************)
\* C20: generate_gwl_code is called at most once for each value of the
\* recipe dictionary, and two targets that process_cell gave recipes of
\* equal value have the same include_file.
C20_SlicedOncePerRecipe ==
    /\ \A i, j \in 1..Len(slicer_runs) : slicer_runs[i] = slicer_runs[j] => i = j
    /\ \A i, j \in 1..Len(cells_associations) :
           (/\ cells_associations[i].processed /\ cells_associations[j].processed
            /\ cells_associations[i].recipe = cells_associations[j].recipe)
               => cells_associations[i].include_file = cells_associations[j].include_file

C20_Witness ==
    /\ Len(cells_associations) = 2
    /\ cells_associations[1].processed /\ cells_associations[2].processed
    /\ cells_associations[1].transformation.origin
         # cells_associations[2].transformation.origin
    /\ cells_associations[1].recipe = cells_associations[2].recipe
    /\ Len(slicer_runs) = 1
    /\ cells_associations[1].include_file = OutDatGwl(1, "a.stl")
    /\ cells_associations[2].include_file = OutDatGwl(1, "a.stl")

\* The out_ fields of a recipe object
OutFields(r) == <<r.out_datgwl, r.out_jobgwl, r.out_recipe, r.out_files>>

\* C21: in a call of process_all_cells, a turn that ran the slicer and found
\* an artifact missing raised and left the four out_ fields of the recipe
\* unset; such a turn is the last of the call, which visits the targets in
\* order, each at most once, and leaves the later targets as they were.
C21_MissingArtifactStopsRun ==
    pall.status \in {"loop", "raised", "returned"} =>
        /\ \A j \in 1..Len(pall.log) :
               /\ pall.log[j].k = j
               /\ (pall.log[j].sliced /\ pall.log[j].produced # Artifacts) =>
                      /\ pall.log[j].raised
                      /\ j = Len(pall.log)
                      /\ pall.status = "raised"
                      /\ OutFields(recipes[pall.log[j].recipe]) = <<<<>>, <<>>, <<>>, <<>>>>
        /\ \A i \in (Len(pall.log) + 1)..Len(cells_associations) :
               cells_associations[i] = pall.before[i]

\* The slicer fails on the first of two targets, different ones.
C21_Witness ==
    /\ pall.status = "raised" /\ pall.k = 1
    /\ Len(cells_associations) = 2
    /\ cells_associations[1].stl_file # cells_associations[2].stl_file
    /\ pall.log[1].produced = Artifacts \ {"files"}
    /\ Len(slicer_runs) = 1
    /\ ~cells_associations[2].processed

\* C29: every target that process_cell returned on has an include_file,
\* the data script of the recipe it was given, and every recipe of the list
\* has its data script.
C29_ProcessedHaveIncludeFile ==
    /\ \A i \in 1..Len(cells_associations) :
           cells_associations[i].processed =>
               /\ cells_associations[i].include_file # <<>>
               /\ \E j \in 1..Len(recipes) :
                      /\ recipes[j].recipe = cells_associations[i].recipe
                      /\ recipes[j].out_datgwl = cells_associations[i].include_file
    /\ \A j \in 1..Len(recipes) : recipes[j].out_datgwl # <<>>

(***************************************************************************)
(* The recipe dictionary as a state machine: a recipe object made from the *)
(* default configuration, then made again from a file or from an edited    *)
(* configuration, or updated, in any order.  A constructor that raises     *)
(* leaves the object there was.                                            *)
(***************************************************************************)
\* The tokens given for a value.
Tokens == {<<"1">>, <<"0">>, <<"t", "r", "u", "e">>, <<"F", "a", "l", "s", "e">>,
           <<"T", "R", "U", "E">>, <<"y", "e", "s">>}

\* The keys given: two of bool, one of float, and one that is no key.
GivenKeys == {"Output.InvertZAxis", "Splitting.GroupBlocks", "Slicing.DistanceMax", "Mobylette"}

\* A line of a recipe file, as write_recipe writes it.
RecipeLine(key, token) == <<key, " ", "=", " ">> \o token \o <<" ", "\n">>

\* The files: one line; a line after a good one; a line without "=".
RecipeFiles ==
    {<<RecipeLine(k, t)>> : k \in GivenKeys, t \in Tokens}
    \cup {<<RecipeLine("Output.ScanMode", <<"Galvo">>), RecipeLine(k, t)>> :
              k \in GivenKeys \ {"Slicing.DistanceMax"}, t \in {<<"0">>, <<"y", "e", "s">>}}
    \cup {<<<<"Mobylette", "\n">>>>}

\* The <<key, token>> items of the lines that have a key and a value.
ItemsOfFile(lines) ==
    LET withValue == SelectSeq(lines, LAMBDA l : IndexOf(l, "=") # 0)
    IN  [i \in 1..Len(withValue) |->
            <<withValue[i][1], SubSeq(withValue[i], 5, Len(withValue[i]) - 2)>>]

\* The section default_recipe with one option edited, or one option more.
EditedConfig(key, token) ==
    IF check_recipe_field(key)
    THEN [i \in 1..Len(KeyOrder) |->
             IF KeyOrder[i] = key THEN <<key, token>> ELSE DefaultConfigRecipe[i]]
    ELSE Append(DefaultConfigRecipe, <<key, token>>)

\* What dop keeps of an operation: its name, the <<key, value>> pairs it was
\* given, and its outcome.
Operation(name, items, outcome) ==
    [name |-> name, items |-> items, raised |-> outcome.raised,
     error |-> outcome.error, names |-> outcome.names]

DInit ==
    /\ drecipe = _recipe_from_config(DefaultConfigRecipe).recipe
    /\ dop = Operation("DescribeRecipe", <<>>, RecipeDone(<<>>))
    /\ DAlone

\* DescribeRecipe(recipe_file), for each file: what it was given and its outcome
FromFileCalls ==
    {[items |-> [i \in 1..Len(ItemsOfFile(lines)) |->
                    <<ItemsOfFile(lines)[i][1], StrValue(ItemsOfFile(lines)[i][2])>>],
      outcome |-> _recipe_from_file(lines)] : lines \in RecipeFiles}

\* DescribeRecipe(), for each edited configuration
FromConfigCalls ==
    {[items |-> <<<<key, StrValue(token)>>>>,
      outcome |-> _recipe_from_config(EditedConfig(key, token))] :
        key \in GivenKeys, token \in Tokens}

\* DescribeRecipe(recipe_file)
FromFile ==
    /\ \E call \in FromFileCalls :
        /\ drecipe' = IF call.outcome.raised THEN drecipe ELSE call.outcome.recipe
        /\ dop' = Operation("_recipe_from_file", call.items, call.outcome)
    /\ UNCHANGED DOthers

\* DescribeRecipe() with an edited configuration
FromConfig ==
    /\ \E call \in FromConfigCalls :
        /\ drecipe' = IF call.outcome.raised THEN drecipe ELSE call.outcome.recipe
        /\ dop' = Operation("_recipe_from_config", call.items, call.outcome)
    /\ UNCHANGED DOthers

\* update_recipe(key, val), val a text or a bool
UpdateRecipeKey ==
    /\ \E key \in GivenKeys,
          val \in {StrValue(t) : t \in Tokens} \cup {BoolValue(FALSE), BoolValue(TRUE)} :
        LET outcome == update_recipe(drecipe, key, val)
        IN  /\ drecipe' = outcome.recipe
            /\ dop' = Operation("update_recipe", <<<<key, val>>>>, outcome)
    /\ UNCHANGED DOthers

DNext == FromFile \/ FromConfig \/ UpdateRecipeKey

SpecD == DInit /\ [][DNext]_vars

(***************************************************************************)
(* Claims on the recipe dictionary                                         *)
(***************************************************************************)
IsBoolKey(key) == check_recipe_field(key) /\ DEFAULT_RECIPE[key].kind = "bool"

\* the <<key, value>> pairs of the last operation that give a text to a bool key
BoolTokenItems ==
    {i \in 1..Len(dop.items) : IsBoolKey(dop.items[i][1]) /\ dop.items[i][2].kind = "str"}

\* C22: an operation that gives a text to a bool key returns only if the
\* text is one of '1', 'true', '0', 'false' in any case, the key being True
\* afterwards for the first two and False for the others.
C22_BoolTokens ==
    \A i \in BoolTokenItems :
        LET key == dop.items[i][1]
            token == lower(dop.items[i][2].chars)
        IN  /\ token \notin (true_like \cup false_like) => dop.raised
            /\ (~dop.raised /\ token \in true_like) => drecipe[key] = BoolValue(TRUE)
            /\ (~dop.raised /\ token \in false_like) => drecipe[key] = BoolValue(FALSE)

\* C23: every key of the recipe is a key of DEFAULT_RECIPE; an operation
\* given a key that is none raises, with the key in its message when it is
\* the first it was given; and an update_recipe that raises leaves the
\* recipe as it was.
C23_OnlyCanonicalKeys ==
    /\ [](DOMAIN drecipe \subseteq DOMAIN DEFAULT_RECIPE)
    /\ [](\A i \in 1..Len(dop.items) :
             ~check_recipe_field(dop.items[i][1]) =>
                 /\ dop.raised /\ dop.error = "ValueError"
                 /\ (i = 1 => dop.names = dop.items[i][1]))
    /\ [][(dop'.name = "update_recipe" /\ dop'.raised) => drecipe' = drecipe]_vars

\* update_recipe('Mobylette', ...) on a recipe that was updated before
C23_Witness ==
    /\ dop.name = "update_recipe" /\ dop.raised
    /\ dop.items[1][1] = "Mobylette" /\ dop.names = "Mobylette"
    /\ DOMAIN drecipe = DOMAIN DEFAULT_RECIPE
    /\ drecipe["Splitting.GroupBlocks"] = BoolValue(TRUE)

(***************************************************************************)
(* utils.find_topcell                                                      *)
(*                                                                         *)
(* The top level of a library is the list of the names of its cells.       *)
(***************************************************************************)
\* constants.TOPCELLNAME
TOPCELLNAME == <<"t", "o", "p", "c", "e", "l", "l">>

IsAlphabetic(c) == \E j \in 1..26 : UpperChars[j] = c \/ LowerChars[j] = c

\* re.compile(r'[\W_0-9]+').sub('', name).lower()
StandardName(name) == lower(SelectSeq(name, IsAlphabetic))

\* find_topcell: the place in the top level of the cell it returns, or the
\* error it raises
find_topcell(toplvl) ==
    LET stdnames == [i \in 1..Len(toplvl) |-> StandardName(toplvl[i])]
    IN  IF Len(toplvl) = 1 THEN [raised |-> FALSE, idx |-> 1]
        ELSE IF Len(toplvl) > 1
        THEN IF IndexOf(stdnames, TOPCELLNAME) # 0
             THEN [raised |-> FALSE, idx |-> IndexOf(stdnames, TOPCELLNAME)]
             ELSE [raised |-> TRUE, idx |-> 0]
        ELSE [raised |-> TRUE, idx |-> 0]

CellNames ==
    {<<"T", "O", "P", "C", "E", "L", "L">>, <<"T", "o", "p", "_", "C", "e", "l", "l", "1">>,
     <<"m", "a", "i", "n">>, <<"M", "a", "i", "n", "_", "2">>, <<"t", "i", "p">>,
     <<"c", "e", "l", "l", "_", "2">>}

\* The values of the option topcell: the default and an edited one.
TopcellOptions == {TOPCELLNAME, <<"m", "a", "i", "n">>}

FInit ==
    /\ top_level \in UNION {[1..n -> CellNames] : n \in 0..2}
    /\ \A i, j \in 1..Len(top_level) : top_level[i] = top_level[j] => i = j
    /\ config_topcell = TOPCELLNAME
    /\ fpc = "args"
    /\ found = <<>>
    /\ FAlone

\* nanodescript_config.edit_config('gds_handler', 'topcell', val)
EditConfig ==
    /\ fpc = "args"
    /\ \E val \in TopcellOptions : config_topcell' = val
    /\ config_topcell' # config_topcell
    /\ UNCHANGED <<top_level, fpc, found>>
    /\ UNCHANGED FOthers

FindTopcell ==
    /\ fpc = "args"
    /\ found' = find_topcell(top_level)
    /\ fpc' = "done"
    /\ UNCHANGED <<top_level, config_topcell>>
    /\ UNCHANGED FOthers

FNext == EditConfig \/ FindTopcell

SpecF == FInit /\ [][FNext]_vars

\* C24: find_topcell returns the only cell of the top level, whatever its
\* name; of several it returns the first whose name, without its
\* non-alphabetic characters and in lower case, is the option topcell of the
\* configuration, and raises when there is none; it raises for an empty
\* library.
C24_TopcellByConfiguredName ==
    fpc = "done" =>
        LET matching == {i \in 1..Len(top_level) : StandardName(top_level[i]) = config_topcell}
        IN  /\ Len(top_level) = 0 => found.raised
            /\ Len(top_level) = 1 => ~found.raised /\ found.idx = 1
            /\ (Len(top_level) > 1 /\ matching = {}) => found.raised
            /\ (Len(top_level) > 1 /\ matching # {}) =>
                   /\ ~found.raised
                   /\ found.idx \in matching
                   /\ \A i \in matching : found.idx <= i

(***************************************************************************)
(* NanoscribeGdsHandler: the labeling operations                           *)
(*                                                                         *)
(* find_nanoscribe_cells, set_nanoscribe_cell, reset_nanoscribe_cells and  *)
(* get_nanoscribe_cells, called on the handler between the calls of        *)
(* find_nanoscribe_instances_and_transformations.  labelings keeps each    *)
(* call: its arguments, the matcher, the labels before and after it and    *)
(* what it gave.                                                           *)
(***************************************************************************)
MaxLabelings == 3          \* calls of the labeling operations
MaxLabeledInstances == 1   \* instances in all of a library they are called on

\* Cell('test'): a cell that is in no library
ForeignCell == "test"

\* A mutation: a cell that is not in the library is passed over in silence.
set_nanoscribe_cell_silent(labels, cell, isnanoscribe) ==
    IF cell \in CellSet
    THEN [raised |-> FALSE, label |-> [labels EXCEPT ![cell] = PropertyOf(isnanoscribe)]]
    ELSE [raised |-> FALSE, label |-> labels]

\* set_nanoscribe_cell: the labels it leaves; it raises AttributeError for a
\* cell that is not in the library.
set_nanoscribe_cell(labels, cell, isnanoscribe) ==
    IF cell \in CellSet
    THEN [raised |-> FALSE, label |-> [labels EXCEPT ![cell] = PropertyOf(isnanoscribe)]]
    ELSE [raised |-> TRUE, label |-> labels]

\* reset_nanoscribe_cells: the labels it leaves
reset_nanoscribe_cells == [c \in CellSet |-> PropertyOf(FALSE)]

\* get_nanoscribe_cells: it raises RuntimeError if the property of a cell is
\* not set, and gives the cells whose property is true, in library order.
get_nanoscribe_cells(labels) ==
    IF \E c \in CellSet : labels[c] = NoProperty
    THEN [raised |-> TRUE, ns_cells |-> <<>>]
    ELSE [raised |-> FALSE, ns_cells |-> SelectSeq(Cells, LAMBDA c : labels[c][1] = 1)]

\* One call of a labeling operation, as labelings keeps it.
Labeling(name, cell, isnanoscribe, raised, ns_cells, after) ==
    [name |-> name, cell |-> cell, isnanoscribe |-> isnanoscribe, raised |-> raised,
     ns_cells |-> ns_cells, matcher |-> matcher, before |-> label, after |-> after]

LInit ==
    /\ RInit
    /\ Len(Flatten([i \in 1..Len(Cells) |->
               Flatten([j \in 1..Len(refs[Cells[i]]) |-> Instances(refs[Cells[i]][j])])]))
           <= MaxLabeledInstances

FindNanoscribeCells ==
    /\ rpc = "idle" /\ Len(labelings) < MaxLabelings
    /\ label' = find_nanoscribe_cells
    /\ labelings' = Append(labelings,
           Labeling("find_nanoscribe_cells", "", FALSE, FALSE, <<>>, label'))
    /\ UNCHANGED <<refs, matcher, nanoscribe_cells_associations, rpc, queue_of_cells,
                   queue_of_transformations, nanoscribe_asso, calls, hist>>
    /\ UNCHANGED LOthers

SetNanoscribeCell ==
    /\ rpc = "idle" /\ Len(labelings) < MaxLabelings
    /\ \E cell \in CellSet \cup {ForeignCell}, isnanoscribe \in BOOLEAN :
           LET call == set_nanoscribe_cell(label, cell, isnanoscribe)
           IN  /\ label' = call.label
               /\ labelings' = Append(labelings,
                      Labeling("set_nanoscribe_cell", cell, isnanoscribe, call.raised,
                               <<>>, label'))
    /\ UNCHANGED <<refs, matcher, nanoscribe_cells_associations, rpc, queue_of_cells,
                   queue_of_transformations, nanoscribe_asso, calls, hist>>
    /\ UNCHANGED LOthers

ResetNanoscribeCells ==
    /\ rpc = "idle" /\ Len(labelings) < MaxLabelings
    /\ label' = reset_nanoscribe_cells
    /\ labelings' = Append(labelings,
           Labeling("reset_nanoscribe_cells", "", FALSE, FALSE, <<>>, label'))
    /\ UNCHANGED <<refs, matcher, nanoscribe_cells_associations, rpc, queue_of_cells,
                   queue_of_transformations, nanoscribe_asso, calls, hist>>
    /\ UNCHANGED LOthers

GetNanoscribeCells ==
    /\ rpc = "idle" /\ Len(labelings) < MaxLabelings
    /\ LET call == get_nanoscribe_cells(label)
       IN  labelings' = Append(labelings,
               Labeling("get_nanoscribe_cells", "", FALSE, call.raised, call.ns_cells, label))
    /\ UNCHANGED rvars
    /\ UNCHANGED LOthers

\* The handler keeps the matcher it was made with.
LNext ==
    \/ FindBegin \/ LoopTarget \/ LoopChildren \/ FindStore \/ FindRaise
    \/ FindNanoscribeCells \/ SetNanoscribeCell \/ ResetNanoscribeCells \/ GetNanoscribeCells

SpecL == LInit /\ [][LNext]_vars

(***************************************************************************)
(* Claims on the labeling operations                                       *)
(***************************************************************************)
\* C27: find_nanoscribe_cells leaves on every cell of the library the label
\* of matcher.match_cell(cell), and every call of it with the same matcher
\* leaves the same labels; get_nanoscribe_cells raises while a cell has no
\* label; called right after reset_nanoscribe_cells and
\* set_nanoscribe_cell(c, True) for a cell c of the library, it gives <<c>>;
\* set_nanoscribe_cell raises for a cell that is not in the library and
\* leaves the labels as they were.
C27_LabelingPrePass ==
    \A i \in 1..Len(labelings) :
        LET call == labelings[i]
        IN  /\ call.name = "find_nanoscribe_cells" =>
                  /\ \A c \in CellSet : call.after[c] = PropertyOf(c \in call.matcher)
                  /\ \A j \in 1..Len(labelings) :
                         (/\ labelings[j].name = "find_nanoscribe_cells"
                          /\ labelings[j].matcher = call.matcher) =>
                             labelings[j].after = call.after
            /\ (/\ call.name = "get_nanoscribe_cells"
                /\ \E c \in CellSet : call.before[c] = NoProperty) => call.raised
            /\ (/\ i + 2 <= Len(labelings)
                /\ call.name = "reset_nanoscribe_cells"
                /\ labelings[i + 1].name = "set_nanoscribe_cell"
                /\ labelings[i + 1].cell \in CellSet
                /\ labelings[i + 1].isnanoscribe
                /\ labelings[i + 1].before = call.after
                /\ labelings[i + 2].name = "get_nanoscribe_cells"
                /\ labelings[i + 2].before = labelings[i + 1].after) =>
                   /\ ~labelings[i + 2].raised
                   /\ labelings[i + 2].ns_cells = <<labelings[i + 1].cell>>
            /\ (call.name = "set_nanoscribe_cell" /\ call.cell \notin CellSet) =>
                   call.raised /\ call.after = call.before

\* The labels are reset, a cell the matcher does not accept is set, and the
\* nanoscribe cells are asked for.
C27_Witness ==
    /\ Len(labelings) = MaxLabelings
    /\ labelings[1].name = "reset_nanoscribe_cells"
    /\ labelings[1].before = [c \in CellSet |-> NoProperty]
    /\ labelings[2].name = "set_nanoscribe_cell"
    /\ labelings[2].cell \in CellSet \ matcher
    /\ labelings[2].isnanoscribe
    /\ labelings[2].before = labelings[1].after
    /\ labelings[3].name = "get_nanoscribe_cells"
    /\ labelings[3].before = labelings[2].after
    /\ labelings[3].ns_cells = <<labelings[2].cell>>

\* C30: whatever labeling calls came before the traversal, a cell taken
\* from the queue is appended to the targets exactly when
\* matcher.match_cell(cell) is true.
C30_TargetsByMatcherOnly ==
    [][(rpc = "loop" /\ queue_of_cells # <<>>) =>
           ((nanoscribe_asso' # nanoscribe_asso) <=> match_cell(Head(queue_of_cells)))]_vars

\* The traversal is about to take from the queue a cell that
\* set_nanoscribe_cell, called last before it, labeled against the matcher.
C30_Witness ==
    /\ rpc = "loop" /\ queue_of_cells # <<>>
    /\ labelings # <<>>
    /\ LET last == labelings[Len(labelings)]
       IN  /\ last.name = "set_nanoscribe_cell" /\ ~last.raised
           /\ last.cell = Head(queue_of_cells)
           /\ last.isnanoscribe # match_cell(last.cell)
====
